---- MODULE Spec2Model ----
(***************************************************************************)
(* GeoPixels Static Monitor (src/src/monitor.js): the polling scheduler,   *)
(* the sync cycle, the tile store, the change attribution and the user     *)
(* profile resolver, as a state                                            *)
(* machine.  One JavaScript macrotask (a click handler, a timer callback,  *)
(* a settled fetch or image decode, together with the promise             *)
(* continuations it releases) is one action.                               *)
(*                                                                         *)
(* Time is counted in ticks of 5 minutes: the ceiling is 1 tick.           *)
(***************************************************************************)
EXTENDS Integers, Sequences, FiniteSets, TLC

\* ------------------------------------------------------------------ bounds
\* number of scheduling chains (a startMonitoring call and the timer
\* callbacks that descend from it) that can be alive at once
MaxChains == 2
\* number of performSync invocations that can be unsettled at once
MaxSyncs == 2
\* value of the pollingInterval input, in ticks
PollingInterval == 1
\* the model keeps the newest MAX_LOG_ENTRIES log entries; the program's
\* value is 1000, the model scales it down
MAX_LOG_ENTRIES == 1
\* number of regions the registry can hold
MaxRegions == 1
\* tile store: no new cycle is begun once userActivity holds this many records
MaxActivity == 1
\* log: no further message is logged once this many were logged
MaxLogged == 3
\* region manager: number of regions the registry can hold
MaxRegistry == 3

\* ------------------------------------------------------- program constants
SYNC_TILE_SIZE == 1000
BATCH_SIZE == 4
\* 5 * 60 * 1000 ms, in ticks
SYNC_TIMEOUT == 1
\* the 1 hour TTL of a cached profile, 3600000 ms, in ticks
TTL == 12

Chains == 1..MaxChains
Syncs == 1..MaxSyncs
\* pollTimer: null, or a timer id.  An id whose timer has already fired is
\* kept by the program; clearTimeout of it does nothing.  All such ids are
\* represented by Stale.
NoTimer == 0
Stale == -1
\* ceiling of a chain that has no ceiling timer
NoCeiling == -1

VARIABLES
  regions,        \* let regions = []
  isMonitoring,   \* let isMonitoring = false
  pollTimer,      \* let pollTimer = null
  activityLog,    \* let activityLog = []
  logged,         \* history: the messages passed to log since the log was last emptied
  chain,          \* the suspended startMonitoring calls / armed poll timers / timer callbacks
  sync,           \* the unsettled performSync invocations
  everStopped,    \* history: stopMonitoring has been called
  tileCache,      \* let tileCache = new Map()
  tileChecksums,  \* let tileChecksums = new Map()
  changedPixels,  \* let changedPixels = new Map()
  leaderboard,    \* let leaderboard = new Map()
  userActivity,   \* let userActivity = []
  strayAttribution, \* history: a cycle that applied no delta has attributed pixels
  miscounted,     \* history: a cycle's attribution differs from the deltas it applied
  foreignRead,    \* history: an attribution read a coordinate its cycle did not apply
  lastKnown,      \* history: per tile, the ServerTimestamp of the last response applied to it
  userProfileCache,    \* let userProfileCache = new Map()
  pendingUserRequests, \* let pendingUserRequests = new Map()
  profileFetches, \* the GetUserProfile requests not yet answered
  resolved,       \* history: the last value a resolveUsername call settled with
  cleared         \* history: the users whose pending entry has been deleted an odd number of times

schedVars == <<isMonitoring, pollTimer, chain, everStopped>>
storeVars == <<tileCache, tileChecksums, changedPixels, leaderboard, userActivity,
               strayAttribution, miscounted, foreignRead, lastKnown>>
profileVars == <<userProfileCache, pendingUserRequests, profileFetches, resolved, cleared>>
vars == <<regions, activityLog, logged, sync, schedVars, storeVars, profileVars>>

\* ------------------------------------------------------------------ regions
\* the regions the operator may add
Region(id, name, x, y, w, h) ==
  [id |-> id, name |-> name, x |-> x, y |-> y, width |-> w, height |-> h]

SchedRegionPool == { Region(1, "A", 0, 0, 1, 1) }

\* ------------------------------------------------------------------ state
\* The program state as one record, so that a handler is a function from
\* state to state and handlers compose as the code calls them.
Cur ==
  [regions |-> regions, isMonitoring |-> isMonitoring, pollTimer |-> pollTimer,
   activityLog |-> activityLog, logged |-> logged, chain |-> chain, sync |-> sync,
   everStopped |-> everStopped, tileCache |-> tileCache,
   tileChecksums |-> tileChecksums, changedPixels |-> changedPixels,
   leaderboard |-> leaderboard, userActivity |-> userActivity,
   strayAttribution |-> strayAttribution, miscounted |-> miscounted,
   foreignRead |-> foreignRead,
   lastKnown |-> lastKnown,
   userProfileCache |-> userProfileCache, pendingUserRequests |-> pendingUserRequests,
   profileFetches |-> profileFetches, resolved |-> resolved,
   cleared |-> cleared]

Becomes(w) ==
  /\ regions' = w.regions
  /\ isMonitoring' = w.isMonitoring
  /\ pollTimer' = w.pollTimer
  /\ activityLog' = w.activityLog
  /\ logged' = w.logged
  /\ chain' = w.chain
  /\ sync' = w.sync
  /\ everStopped' = w.everStopped
  /\ tileCache' = w.tileCache
  /\ tileChecksums' = w.tileChecksums
  /\ changedPixels' = w.changedPixels
  /\ leaderboard' = w.leaderboard
  /\ userActivity' = w.userActivity
  /\ strayAttribution' = w.strayAttribution
  /\ miscounted' = w.miscounted
  /\ foreignRead' = w.foreignRead
  /\ lastKnown' = w.lastKnown
  /\ userProfileCache' = w.userProfileCache
  /\ pendingUserRequests' = w.pendingUserRequests
  /\ profileFetches' = w.profileFetches
  /\ resolved' = w.resolved
  /\ cleared' = w.cleared

\* a Map: a function whose domain is the set of keys present
EmptyMap == [k \in {} |-> 0]
Has(m, k) == k \in DOMAIN m
Put(m, k, v) == [x \in DOMAIN m \cup {k} |-> IF x = k THEN v ELSE m[x]]
Remove(m, k) == [x \in DOMAIN m \ {k} |-> m[x]]

\* A chain: pc "initial" = startMonitoring suspended at its await (line 466),
\* "timer" = poll timer armed, "racing" = timer callback suspended at its await
\* (line 497).  sync: the awaited invocation.  remaining: ticks until the poll
\* timer may fire.  ceiling: ticks until the ceiling timer may fire.
\* History fields: waited = ticks since the timer was armed, failed = the
\* cycle last awaited ended in the catch of performSync.
FreeChain == [pc |-> "free", sync |-> 0, remaining |-> 0, ceiling |-> NoCeiling,
              waited |-> 0, failed |-> FALSE]
\* A performSync invocation: pc "fetch" = suspended at await fetchTiles (line
\* 540), "decode" = suspended in processTile at the decodeWebP awaits (lines
\* 622-623).  batches: the batches not yet answered; while pc = "fetch" its
\* head is the one requested.
\* queue: the entries of the current response not yet processed; cur: the full
\* entry being decoded.  History fields: failed = ended in the catch,
\* appliedDelta = has applied a delta payload with pixels, applied = the delta
\* entries it has applied, each with its tile, in order, untimed = it has
\* received a response without ServerTimestamp.
FreeSync == [pc |-> "free", batches |-> <<>>, queue |-> <<>>, serverTimestamp |-> 0,
             hasAnyChanges |-> FALSE, tilesWithChanges |-> <<>>, cur |-> <<>>,
             failed |-> FALSE, appliedDelta |-> FALSE, applied |-> <<>>, untimed |-> FALSE]

\* ------------------------------------------------------------------ log
\* activityLog.slice(0, n): the oldest n
FirstN(s, n) == IF Len(s) <= n THEN s ELSE SubSeq(s, 1, n)
\* log(message, className): push, then keep the newest MAX_LOG_ENTRIES
LastN(s, n) == IF Len(s) <= n THEN s ELSE SubSeq(s, Len(s) - n + 1, Len(s))

log(w, message) ==
  [w EXCEPT !.activityLog = LastN(Append(w.activityLog, message), MAX_LOG_ENTRIES)]

\* ------------------------------------------------------ calculateRequiredTiles
\* rounding towards zero, as Math.trunc or v - v % SYNC_TILE_SIZE would
FloorTileTowardsZero(v) ==
  IF v >= 0 THEN (v \div SYNC_TILE_SIZE) * SYNC_TILE_SIZE
  ELSE 0 - (((0 - v) \div SYNC_TILE_SIZE) * SYNC_TILE_SIZE)
\* Math.floor(v / SYNC_TILE_SIZE) * SYNC_TILE_SIZE
FloorTile(v) == (v \div SYNC_TILE_SIZE) * SYNC_TILE_SIZE

\* the numbers lo, lo + SYNC_TILE_SIZE, ... < hi
RECURSIVE TileStepsBelow(_, _)
TileStepsBelow(lo, hi) ==
  IF lo >= hi THEN <<>> ELSE <<lo>> \o TileStepsBelow(lo + SYNC_TILE_SIZE, hi)

\* the numbers lo, lo + SYNC_TILE_SIZE, ... <= hi, in loop order
RECURSIVE TileSteps(_, _)
TileSteps(lo, hi) ==
  IF lo > hi THEN <<>> ELSE <<lo>> \o TileSteps(lo + SYNC_TILE_SIZE, hi)

\* tileSet.add for every key of `keys`, in order (a Set keeps insertion order)
RECURSIVE AddAll(_, _)
AddAll(acc, keys) ==
  IF keys = <<>> THEN acc
  ELSE AddAll(IF \E i \in 1..Len(acc) : acc[i] = Head(keys) THEN acc
              ELSE Append(acc, Head(keys)), Tail(keys))

\* the keys of one region: outer loop over tx, inner loop over ty
RECURSIVE Cross(_, _)
Cross(xs, ys) ==
  IF xs = <<>> THEN <<>>
  ELSE [i \in 1..Len(ys) |-> <<Head(xs), ys[i]>>] \o Cross(Tail(xs), ys)

RegionTiles(r) ==
  Cross(TileSteps(FloorTile(r.x), FloorTile(r.x + r.width)),
        TileSteps(FloorTile(r.y), FloorTile(r.y + r.height)))

RECURSIVE TilesOf(_, _)
TilesOf(acc, rs) ==
  IF rs = <<>> THEN acc ELSE TilesOf(AddAll(acc, RegionTiles(Head(rs))), Tail(rs))

calculateRequiredTiles(rs) == TilesOf(<<>>, rs)

\* batches.push(tiles.slice(i, i + BATCH_SIZE))
RECURSIVE Batches(_)
Batches(tiles) ==
  IF tiles = <<>> THEN <<>>
  ELSE IF Len(tiles) <= BATCH_SIZE THEN <<tiles>>
  ELSE <<SubSeq(tiles, 1, BATCH_SIZE)>> \o Batches(SubSeq(tiles, BATCH_SIZE + 1, Len(tiles)))

\* ------------------------------------------------------------------ bitmaps
\* decodeWebP resolves to {width, height, data}: data holds 4 bytes per pixel
Bitmap(width, height, data) == [width |-> width, height |-> height, data |-> data]

\* new Uint8Array(new Uint32Array([userId]).buffer): the 4 little-endian bytes
UserBytes(userId) ==
  << userId % 256, (userId \div 256) % 256, (userId \div 65536) % 256,
     (userId \div 16777216) % 256 >>

\* new Uint32Array(data.slice(idx, idx + 4).buffer)[0]; idx counts from 0
ReadUser(data, idx) ==
  data[idx + 1] + 256 * data[idx + 2] + 65536 * data[idx + 3] + 16777216 * data[idx + 4]

\* a store into the Uint8ClampedArray of an ImageData
Clamp(v) == IF v < 0 THEN 0 ELSE IF v > 255 THEN 255 ELSE v

\* ------------------------------------------------------- computeTileChecksum
\* a ^ b on the low n bits
RECURSIVE XorBits(_, _, _)
XorBits(a, b, n) ==
  IF n = 0 THEN 0 ELSE (((a % 2) + (b % 2)) % 2) + 2 * XorBits(a \div 2, b \div 2, n - 1)

\* The 32-bit accumulator is kept as <<high 16 bits, low 16 bits>>.
\* checksum ^= byte; checksum = (checksum * 31) & 0xffffffff
ChecksumStep(c, byte) ==
  LET lo == (c[2] \div 256) * 256 + XorBits(c[2] % 256, byte, 8)
      lo31 == lo * 31
  IN << ((c[1] * 31) + (lo31 \div 65536)) % 65536, lo31 % 65536 >>

RECURSIVE ChecksumFrom(_, _, _)
ChecksumFrom(c, data, i) ==
  IF i > Len(data) THEN c ELSE ChecksumFrom(ChecksumStep(c, data[i]), data, i + 1)

\* checksum.toString(16) is one-to-one on the accumulator, which stands for it
computeTileChecksum(bitmap) == ChecksumFrom(<<0, 0>>, bitmap.data, 1)

\* --------------------------------------------------------------- applyDeltas
SetByte(data, idx, v) == [data EXCEPT ![idx + 1] = v]

\* one iteration of the loop; bm = <<colorBitmap, userBitmap>>
ApplyPixel(bm, pixel, tileX, tileY) ==
  LET localX == pixel[1] - tileX
      localY == pixel[2] - tileY
      idx == (localY * bm[1].width + localX) * 4
      ub == UserBytes(pixel[4])
  IN IF localX < 0 \/ localX >= bm[1].width \/ localY < 0 \/ localY >= bm[1].height
     THEN bm
     ELSE << [bm[1] EXCEPT !.data = SetByte(@, idx, Clamp(pixel[3]))],
             [bm[2] EXCEPT !.data =
                SetByte(SetByte(SetByte(SetByte(@, idx, ub[1]), idx + 1, ub[2]),
                                idx + 2, ub[3]), idx + 3, ub[4])] >>

RECURSIVE applyDeltasReversed(_, _, _, _)
applyDeltasReversed(bm, pixels, tileX, tileY) ==
  IF pixels = <<>> THEN bm
  ELSE ApplyPixel(applyDeltasReversed(bm, Tail(pixels), tileX, tileY), Head(pixels),
                  tileX, tileY)

RECURSIVE applyDeltas(_, _, _, _)
applyDeltas(bm, pixels, tileX, tileY) ==
  IF pixels = <<>> THEN bm
  ELSE applyDeltas(ApplyPixel(bm, Head(pixels), tileX, tileY), Tail(pixels), tileX, tileY)

\* ---------------------------------------------------------------- processTile
\* A tile identifier is a string, kept as the sequence of its characters.
DigitChars == <<"0", "1", "2", "3", "4", "5", "6", "7", "8", "9">>
IsDigit(c) == \E d \in 1..10 : DigitChars[d] = c
DigitValue(c) == (CHOOSE d \in 1..10 : DigitChars[d] = c) - 1

\* \d+ at position i, greedy: the position after the last digit (i if none)
RECURSIVE DigitsEnd(_, _)
DigitsEnd(name, i) ==
  IF i <= Len(name) /\ IsDigit(name[i]) THEN DigitsEnd(name, i + 1) ELSE i

\* parseInt of the digits name[i..j-1]
RECURSIVE DigitsValue(_, _, _, _)
DigitsValue(name, i, j, acc) ==
  IF i >= j THEN acc ELSE DigitsValue(name, i + 1, j, acc * 10 + DigitValue(name[i]))

\* (-?\d+) at position i: whether it matches, where it ends, parseInt of it
NumberAt(name, i) ==
  LET neg == i <= Len(name) /\ name[i] = "-"
      from == IF neg THEN i + 1 ELSE i
  IN CHOOSE r \in { [ok |-> to > from, next |-> to,
                     value |-> IF neg THEN 0 - DigitsValue(name, from, to, 0)
                               ELSE DigitsValue(name, from, to, 0)] :
                    to \in {DigitsEnd(name, from)} } : TRUE

\* the pattern at position p, anchored at the start only
MatchAtAnchored(name, p) ==
  LET first == NumberAt(name, p + 5)
      second == NumberAt(name, first.next + 1)
  IN IF /\ p = 1 /\ p + 4 <= Len(name)
        /\ SubSeq(name, p, p + 4) = <<"t", "i", "l", "e", "_">>
        /\ first.ok
        /\ first.next <= Len(name) /\ name[first.next] = "_"
        /\ second.ok /\ second.next = Len(name) + 1
     THEN [ok |-> TRUE, x |-> first.value, y |-> second.value]
     ELSE [ok |-> FALSE, x |-> 0, y |-> 0]

\* the pattern tile_(-?\d+)_(-?\d+) at position p; it is not anchored
NoMatch == [ok |-> FALSE, x |-> 0, y |-> 0]

\* _(-?\d+) after the first number
SecondAt(name, first) ==
  IF first.ok /\ first.next <= Len(name) /\ name[first.next] = "_"
  THEN CHOOSE r \in { IF second.ok THEN [ok |-> TRUE, x |-> first.value, y |-> second.value]
                      ELSE NoMatch : second \in {NumberAt(name, first.next + 1)} } : TRUE
  ELSE NoMatch

MatchAt(name, p) ==
  IF p + 4 <= Len(name) /\ SubSeq(name, p, p + 4) = <<"t", "i", "l", "e", "_">>
  THEN CHOOSE r \in { SecondAt(name, first) : first \in {NumberAt(name, p + 5)} } : TRUE
  ELSE NoMatch

\* the leftmost match at or after position p
RECURSIVE MatchFrom(_, _)
MatchFrom(name, p) ==
  IF p > Len(name) THEN NoMatch
  ELSE CHOOSE r \in { IF m.ok THEN m ELSE MatchFrom(name, p + 1) : m \in {MatchAt(name, p)} } :
         TRUE

\* tileKeyName.match(/tile_(-?\d+)_(-?\d+)/): the leftmost match
Matches(tileKeyName) == MatchFrom(tileKeyName, 1).ok
\* `${parseInt(match[1])},${parseInt(match[2])}`
TileKeyOf(tileKeyName) ==
  CHOOSE r \in { <<m.x, m.y>> : m \in {MatchFrom(tileKeyName, 1)} } : TRUE

\* tilesWithChanges.add(tileKey)
SetAdd(set, k) == AddAll(set, <<k>>)

\* the pixelKeys of a delta, in payload order
PixelKeys(pixels) == [i \in 1..Len(pixels) |-> <<pixels[i][1], pixels[i][2]>>]

\* the entries of a delta, each with the tile it was sent for
Tagged(tileKey, pixels) == [i \in 1..Len(pixels) |-> <<tileKey, pixels[i]>>]

\* Type 'delta' (lines 644-679)
processTileDeltaSilent(w, s, tileKey, tileData, serverTimestamp) ==
  IF ~Has(w.tileCache, tileKey) THEN w
  ELSE
    LET cached == w.tileCache[tileKey] IN
    IF Len(tileData.Pixels) > 0
    THEN LET changedSet == IF Has(w.changedPixels, tileKey) THEN w.changedPixels[tileKey]
                           ELSE <<>>
             bm == applyDeltas(<<cached.colorBitmap, cached.userBitmap>>, tileData.Pixels,
                               tileKey[1], tileKey[2])
         IN [log(w, "Applied deltas") EXCEPT
               !.changedPixels = Put(@, tileKey, AddAll(changedSet, PixelKeys(tileData.Pixels))),
               !.tileCache = Put(@, tileKey, [colorBitmap |-> bm[1], userBitmap |-> bm[2],
                                              timestamp |-> serverTimestamp]),
               !.tileChecksums = Put(@, tileKey, computeTileChecksum(bm[2])),
               !.sync[s].appliedDelta = TRUE,
               !.sync[s].applied = @ \o Tagged(tileKey, tileData.Pixels)]
    ELSE [log(w, "Delta: no new pixels") EXCEPT
            !.tileCache = Put(@, tileKey, [cached EXCEPT !.timestamp = serverTimestamp])]

processTileDeltaStaleChecksum(w, s, tileKey, tileData, serverTimestamp) ==
  IF ~Has(w.tileCache, tileKey) THEN w
  ELSE
    LET cached == w.tileCache[tileKey] IN
    IF Len(tileData.Pixels) > 0
    THEN LET changedSet == IF Has(w.changedPixels, tileKey) THEN w.changedPixels[tileKey]
                           ELSE <<>>
             bm == applyDeltas(<<cached.colorBitmap, cached.userBitmap>>, tileData.Pixels,
                               tileKey[1], tileKey[2])
         IN [log(w, "Applied deltas") EXCEPT
               !.changedPixels = Put(@, tileKey, AddAll(changedSet, PixelKeys(tileData.Pixels))),
               !.tileCache = Put(@, tileKey, [colorBitmap |-> bm[1], userBitmap |-> bm[2],
                                              timestamp |-> serverTimestamp]),
               !.sync[s].hasAnyChanges = TRUE,
               !.sync[s].appliedDelta = TRUE,
               !.sync[s].applied = @ \o Tagged(tileKey, tileData.Pixels),
               !.sync[s].tilesWithChanges = SetAdd(@, tileKey)]
    ELSE [log(w, "Delta: no new pixels") EXCEPT
            !.tileCache = Put(@, tileKey, [cached EXCEPT !.timestamp = serverTimestamp])]

processTileDeltaRecordsFirst(w, s, tileKey, tileData, serverTimestamp) ==
  LET changedSet == IF Has(w.changedPixels, tileKey) THEN w.changedPixels[tileKey] ELSE <<>>
      w0 == IF Len(tileData.Pixels) > 0
            THEN [w EXCEPT !.changedPixels =
                             Put(@, tileKey, AddAll(changedSet, PixelKeys(tileData.Pixels)))]
            ELSE w
  IN IF ~Has(w.tileCache, tileKey) THEN w0
     ELSE
       LET cached == w.tileCache[tileKey] IN
       IF Len(tileData.Pixels) > 0
       THEN LET bm == applyDeltas(<<cached.colorBitmap, cached.userBitmap>>, tileData.Pixels,
                                  tileKey[1], tileKey[2])
            IN [log(w0, "Applied deltas") EXCEPT
                  !.tileCache = Put(@, tileKey, [colorBitmap |-> bm[1], userBitmap |-> bm[2],
                                                 timestamp |-> serverTimestamp]),
                  !.tileChecksums = Put(@, tileKey, computeTileChecksum(bm[2])),
                  !.sync[s].hasAnyChanges = TRUE,
                  !.sync[s].appliedDelta = TRUE,
                  !.sync[s].applied = @ \o Tagged(tileKey, tileData.Pixels),
                  !.sync[s].tilesWithChanges = SetAdd(@, tileKey)]
       ELSE [log(w, "Delta: no new pixels") EXCEPT
               !.tileCache = Put(@, tileKey, [cached EXCEPT !.timestamp = serverTimestamp])]

processTileDelta(w, s, tileKey, tileData, serverTimestamp) ==
  IF ~Has(w.tileCache, tileKey) THEN w
  ELSE
    LET cached == w.tileCache[tileKey] IN
    IF Len(tileData.Pixels) > 0
    THEN LET changedSet == IF Has(w.changedPixels, tileKey) THEN w.changedPixels[tileKey]
                           ELSE <<>>
             bm == applyDeltas(<<cached.colorBitmap, cached.userBitmap>>, tileData.Pixels,
                               tileKey[1], tileKey[2])
         IN [log(w, "Applied deltas") EXCEPT
               !.changedPixels = Put(@, tileKey, AddAll(changedSet, PixelKeys(tileData.Pixels))),
               !.tileCache = Put(@, tileKey, [colorBitmap |-> bm[1], userBitmap |-> bm[2],
                                              timestamp |-> serverTimestamp]),
               !.tileChecksums = Put(@, tileKey, computeTileChecksum(bm[2])),
               !.sync[s].hasAnyChanges = TRUE,
               !.sync[s].appliedDelta = TRUE,
               !.sync[s].applied = @ \o Tagged(tileKey, tileData.Pixels),
               !.sync[s].tilesWithChanges = SetAdd(@, tileKey)]
    ELSE [log(w, "Delta: no new pixels") EXCEPT
            !.tileCache = Put(@, tileKey, [cached EXCEPT !.timestamp = serverTimestamp])]

\* Type 'full', after both decodeWebP awaits (lines 625-643), for the entry
\* sync[s].cur
processTileFullNoOldCheck(w, s) ==
  LET me == w.sync[s]
      tileKey == me.cur.tileKey
      newUserChecksum == computeTileChecksum(me.cur.data.UserWebP)
      w1 == [log(w, "Loaded full tile") EXCEPT
               !.tileCache = Put(@, tileKey, [colorBitmap |-> me.cur.data.ColorWebP,
                                              userBitmap |-> me.cur.data.UserWebP,
                                              timestamp |-> me.serverTimestamp]),
               !.tileChecksums = Put(@, tileKey, newUserChecksum),
               !.sync[s].cur = <<>>]
  IN IF ~Has(w.tileChecksums, tileKey) \/ w.tileChecksums[tileKey] # newUserChecksum
     THEN [log(w1, "Tile has CHANGED") EXCEPT
             !.sync[s].hasAnyChanges = TRUE,
             !.sync[s].tilesWithChanges = SetAdd(@, tileKey)]
     ELSE w1

processTileFullKeepsBitmaps(w, s) ==
  LET me == w.sync[s]
      tileKey == me.cur.tileKey
      newUserChecksum == computeTileChecksum(me.cur.data.UserWebP)
      same == Has(w.tileChecksums, tileKey) /\ w.tileChecksums[tileKey] = newUserChecksum
      w1 == [log(w, "Loaded full tile") EXCEPT
               !.tileCache = Put(@, tileKey,
                                 IF same THEN [w.tileCache[tileKey] EXCEPT
                                                 !.timestamp = me.serverTimestamp]
                                 ELSE [colorBitmap |-> me.cur.data.ColorWebP,
                                       userBitmap |-> me.cur.data.UserWebP,
                                       timestamp |-> me.serverTimestamp]),
               !.tileChecksums = Put(@, tileKey, newUserChecksum),
               !.sync[s].cur = <<>>]
  IN IF Has(w.tileChecksums, tileKey) /\ w.tileChecksums[tileKey] # newUserChecksum
     THEN [log(w1, "Tile has CHANGED") EXCEPT
             !.sync[s].hasAnyChanges = TRUE,
             !.sync[s].tilesWithChanges = SetAdd(@, tileKey)]
     ELSE IF ~Has(w.tileChecksums, tileKey) THEN log(w1, "Tile is new baseline")
     ELSE w1

processTileFull(w, s) ==
  LET me == w.sync[s]
      tileKey == me.cur.tileKey
      newUserChecksum == computeTileChecksum(me.cur.data.UserWebP)
      w1 == [log(w, "Loaded full tile") EXCEPT
               !.tileCache = Put(@, tileKey, [colorBitmap |-> me.cur.data.ColorWebP,
                                              userBitmap |-> me.cur.data.UserWebP,
                                              timestamp |-> me.serverTimestamp]),
               !.tileChecksums = Put(@, tileKey, newUserChecksum),
               !.sync[s].cur = <<>>]
  IN IF Has(w.tileChecksums, tileKey) /\ w.tileChecksums[tileKey] # newUserChecksum
     THEN [log(w1, "Tile has CHANGED") EXCEPT
             !.sync[s].hasAnyChanges = TRUE,
             !.sync[s].tilesWithChanges = SetAdd(@, tileKey)]
     ELSE IF ~Has(w.tileChecksums, tileKey) THEN log(w1, "Tile is new baseline")
     ELSE w1

\* ------------------------------------------------------------ detectChanges
\* the coordinates the two outer loops visit, in order, each with its tile
RECURSIVE Candidates(_, _)
Candidates(w, tiles) ==
  IF tiles = <<>> THEN <<>>
  ELSE LET tileKey == Head(tiles) IN
       (IF Has(w.tileCache, tileKey) /\ Has(w.changedPixels, tileKey)
        THEN [i \in 1..Len(w.changedPixels[tileKey]) |-> <<tileKey, w.changedPixels[tileKey][i]>>]
        ELSE <<>>) \o Candidates(w, Tail(tiles))

\* lines 762-769: the first region that contains the coordinate
RECURSIVE RegionOfNoBreak(_, _, _)
RegionOfNoBreak(rs, gridX, gridY) ==
  IF rs = <<>> THEN "Unknown"
  ELSE LET region == rs[Len(rs)] IN
       IF /\ gridX >= region.x /\ gridX < region.x + region.width
          /\ gridY >= region.y /\ gridY < region.y + region.height
       THEN region.name
       ELSE RegionOfNoBreak(SubSeq(rs, 1, Len(rs) - 1), gridX, gridY)

RECURSIVE RegionOf(_, _, _)
RegionOf(rs, gridX, gridY) ==
  IF rs = <<>> THEN "Unknown"
  ELSE LET region == Head(rs) IN
       IF /\ gridX >= region.x /\ gridX < region.x + region.width
          /\ gridY >= region.y /\ gridY < region.y + region.height
       THEN region.name
       ELSE RegionOf(Tail(rs), gridX, gridY)

\* the body of the inner loop (lines 747-779) for one coordinate
AttributeCountsZero(userChanges, w, item) ==
  LET tileKey == item[1]
      gridX == item[2][1]
      gridY == item[2][2]
      cached == w.tileCache[tileKey]
      localX == gridX - tileKey[1]
      localY == gridY - tileKey[2]
      idx == (localY * cached.userBitmap.width + localX) * 4
      userId == ReadUser(cached.userBitmap.data, idx)
  IN IF \/ localX < 0 \/ localX >= cached.userBitmap.width
        \/ localY < 0 \/ localY >= cached.userBitmap.height
     THEN userChanges
     ELSE IF \E i \in 1..Len(userChanges) : userChanges[i].userId = userId
     THEN [i \in 1..Len(userChanges) |->
             IF userChanges[i].userId = userId
             THEN [userChanges[i] EXCEPT !.pixels = @ + 1] ELSE userChanges[i]]
     ELSE Append(userChanges, [userId |-> userId, pixels |-> 1,
                               region |-> RegionOf(w.regions, gridX, gridY),
                               chunk |-> tileKey])

AttributeMoves(userChanges, w, item) ==
  LET tileKey == item[1]
      gridX == item[2][1]
      gridY == item[2][2]
      cached == w.tileCache[tileKey]
      localX == gridX - tileKey[1]
      localY == gridY - tileKey[2]
      idx == (localY * cached.userBitmap.width + localX) * 4
      userId == ReadUser(cached.userBitmap.data, idx)
  IN IF \/ localX < 0 \/ localX >= cached.userBitmap.width
        \/ localY < 0 \/ localY >= cached.userBitmap.height
     THEN userChanges
     ELSE IF userId = 0 THEN userChanges
     ELSE IF \E i \in 1..Len(userChanges) : userChanges[i].userId = userId
     THEN [i \in 1..Len(userChanges) |->
             IF userChanges[i].userId = userId
             THEN [userChanges[i] EXCEPT !.pixels = @ + 1,
                                         !.region = RegionOf(w.regions, gridX, gridY),
                                         !.chunk = tileKey]
             ELSE userChanges[i]]
     ELSE Append(userChanges, [userId |-> userId, pixels |-> 1,
                               region |-> RegionOf(w.regions, gridX, gridY),
                               chunk |-> tileKey])

Attribute(userChanges, w, item) ==
  LET tileKey == item[1]
      gridX == item[2][1]
      gridY == item[2][2]
      cached == w.tileCache[tileKey]
      localX == gridX - tileKey[1]
      localY == gridY - tileKey[2]
      idx == (localY * cached.userBitmap.width + localX) * 4
      userId == ReadUser(cached.userBitmap.data, idx)
  IN IF \/ localX < 0 \/ localX >= cached.userBitmap.width
        \/ localY < 0 \/ localY >= cached.userBitmap.height
     THEN userChanges
     ELSE IF userId = 0 THEN userChanges
     ELSE IF \E i \in 1..Len(userChanges) : userChanges[i].userId = userId
     THEN [i \in 1..Len(userChanges) |->
             IF userChanges[i].userId = userId
             THEN [userChanges[i] EXCEPT !.pixels = @ + 1] ELSE userChanges[i]]
     ELSE Append(userChanges, [userId |-> userId, pixels |-> 1,
                               region |-> RegionOf(w.regions, gridX, gridY),
                               chunk |-> tileKey])

RECURSIVE UserChanges(_, _, _)
UserChanges(userChanges, w, items) ==
  IF items = <<>> THEN userChanges
  ELSE UserChanges(Attribute(userChanges, w, Head(items)), w, Tail(items))

\* --------------------------------------------------------- resolveUsername
\* The strings a call settles with: '[No User]', profile.name and `User${userId}`
NoUser == <<"[No User]", 0>>
ProfileName(userId) == <<"name", userId>>
Fallback(userId) == <<"User", userId>>

\* !userId || userId === 0
NoUserIdNever(userId) == FALSE
NoUserId(userId) == userId = 0

\* Date.now() - cached.fetchedAt < 3600000
FreshAtTTL(cached) == cached.age <= TTL
Fresh(cached) == cached.age < TTL

\* pendingUserRequests.has(userId)
IsPendingNever(w, userId) == FALSE
IsPending(w, userId) == Has(w.pendingUserRequests, userId)

\* the call returns without a request: lines 97-105
Immediate(w, userId) ==
  \/ NoUserId(userId)
  \/ Has(w.userProfileCache, userId) /\ Fresh(w.userProfileCache[userId])

\* A request is known by a tag, which stands for the promise of its
\* fetchUserProfile call: the least number no outstanding request has.
FreshTag(w) ==
  CHOOSE t \in 1..(Cardinality(DOMAIN w.profileFetches) + 1) :
    /\ t \notin DOMAIN w.profileFetches
    /\ \A u \in 1..(t - 1) : u \in DOMAIN w.profileFetches

\* resolveUsername(userId) up to its return or its await (lines 96-117).  then:
\* the render functions the caller has chained to the result.  A request
\* record: userId, the chained render functions of all the calls that wait for
\* it, and joined = a later call was handed its promise (line 109).
resolveUsername(w, userId, then) ==
  IF NoUserId(userId) THEN [w EXCEPT !.resolved = <<userId, NoUser>>]
  ELSE IF Has(w.userProfileCache, userId) /\ Fresh(w.userProfileCache[userId])
  THEN [w EXCEPT !.resolved = <<userId, w.userProfileCache[userId].username>>]
  ELSE IF IsPending(w, userId)
  THEN [w EXCEPT !.profileFetches[w.pendingUserRequests[userId]] =
                    [@ EXCEPT !.then = @ \cup then, !.joined = TRUE]]
  ELSE LET t == FreshTag(w) IN
       [w EXCEPT !.profileFetches = Put(@, t, [userId |-> userId, then |-> then,
                                                joined |-> FALSE]),
                 !.pendingUserRequests = Put(@, userId, t)]

\* renderLeaderboard() and renderUserActivity() up to their await: they resolve
\* the user of every entry (lines 972-974, 1063-1065) and chain nothing that
\* changes the state
RECURSIVE ResolveKeys(_, _)
ResolveKeys(w, keys) ==
  IF keys = {} THEN w
  ELSE LET k == CHOOSE k \in keys : TRUE IN
       ResolveKeys(resolveUsername(w, w.leaderboard[k].userId, {}), keys \ {k})

renderLeaderboard(w) == ResolveKeys(w, DOMAIN w.leaderboard)

RECURSIVE ResolveEntries(_, _)
ResolveEntries(w, entries) ==
  IF entries = <<>> THEN w
  ELSE ResolveEntries(resolveUsername(w, Head(entries).userId, {}), Tail(entries))

renderUserActivity(w) == ResolveEntries(w, w.userActivity)

\* the .then(...) callbacks of the calls a result is given to
Chained(w, then) ==
  LET w1 == IF "renderLeaderboard" \in then THEN renderLeaderboard(w) ELSE w
  IN IF "renderUserActivity" \in then THEN renderUserActivity(w1) ELSE w1

\* resolveUsername(userId).then(...): when the call returns at once, the
\* callback runs as soon as the calling code has run to its end; it changes
\* only the resolver's state, which that code does not read
ResolveThen(w, userId, then) ==
  IF Immediate(w, userId) THEN Chained(resolveUsername(w, userId, then), then)
  ELSE resolveUsername(w, userId, then)

\* what a GetUserProfile request can meet: a profile with a name, a profile
\* without one, a status that is not ok, a rejected fetch
ProfileOutcomes == {"name", "no name", "status", "transport"}

\* fetchUserProfile(userId) after its awaits (lines 134-155); resolved holds
\* the username it returns
fetchUserProfileCachesFallback(w, userId, outcome) ==
  LET username == IF outcome = "name" THEN ProfileName(userId) ELSE Fallback(userId)
      w1 == [w EXCEPT !.userProfileCache = Put(@, userId, [username |-> username, age |-> 0]),
                      !.resolved = <<userId, username>>]
  IN IF outcome \in {"name", "no name"} THEN w1 ELSE log(w1, "Failed to fetch profile")

fetchUserProfile(w, userId, outcome) ==
  IF outcome \in {"name", "no name"}
  THEN LET username == IF outcome = "name" THEN ProfileName(userId) ELSE Fallback(userId)
       IN [w EXCEPT !.userProfileCache = Put(@, userId, [username |-> username, age |-> 0]),
                    !.resolved = <<userId, username>>]
  ELSE [log(w, "Failed to fetch profile") EXCEPT !.resolved = <<userId, Fallback(userId)>>]

\* the request t is answered: fetchUserProfile returns, and the call that made
\* the request goes on after its await (lines 117-123) and returns the same
\* username
\* pendingUserRequests.delete(userId)
Toggle(set, userId) == IF userId \in set THEN set \ {userId} ELSE set \cup {userId}

AnsweredKeepsFailed(w, t, outcome) ==
  LET userId == w.profileFetches[t].userId
      w1 == fetchUserProfile([w EXCEPT !.profileFetches = Remove(@, t)], userId, outcome)
  IN IF outcome \in {"name", "no name"}
     THEN [w1 EXCEPT !.pendingUserRequests = Remove(@, userId),
                     !.cleared = Toggle(@, userId)]
     ELSE w1

Answered(w, t, outcome) ==
  LET userId == w.profileFetches[t].userId
      w1 == fetchUserProfile([w EXCEPT !.profileFetches = Remove(@, t)], userId, outcome)
  IN [w1 EXCEPT !.pendingUserRequests = Remove(@, userId),
                !.cleared = Toggle(@, userId)]

\* existing.pixels = pixelCount
updateLeaderboardSets(w, userId, pixelCount, region) ==
  LET key == <<userId, region>>
      existing == IF Has(w.leaderboard, key) THEN w.leaderboard[key]
                  ELSE [userId |-> userId, region |-> region, pixels |-> 0]
      w1 == [w EXCEPT !.leaderboard = Put(@, key, [existing EXCEPT !.pixels = pixelCount])]
  IN ResolveThen(w1, userId, {"renderLeaderboard"})

\* leaderboard key `${userId}-${region}`; lastSeen, a wall-clock reading, is left out
updateLeaderboard(w, userId, pixelCount, region) ==
  LET key == <<userId, region>>
      existing == IF Has(w.leaderboard, key) THEN w.leaderboard[key]
                  ELSE [userId |-> userId, region |-> region, pixels |-> 0]
      w1 == [w EXCEPT !.leaderboard = Put(@, key, [existing EXCEPT !.pixels = @ + pixelCount])]
  IN ResolveThen(w1, userId, {"renderLeaderboard"})

\* userActivity.unshift(...), then only the newest record is kept
addUserActivityNewestOnly(w, userId, pixelCount, region, chunk) ==
  LET w1 == [w EXCEPT !.userActivity = << [userId |-> userId, pixels |-> pixelCount,
                                          region |-> region, chunk |-> chunk] >>]
  IN ResolveThen(w1, userId, {"renderUserActivity"})

\* userActivity.unshift(...)
addUserActivity(w, userId, pixelCount, region, chunk) ==
  LET w1 == [w EXCEPT !.userActivity = << [userId |-> userId, pixels |-> pixelCount,
                                          region |-> region, chunk |-> chunk] >> \o @]
  IN ResolveThen(w1, userId, {"renderUserActivity"})

\* the loop of lines 783-787
RECURSIVE RecordChanges(_, _)
RecordChanges(w, userChanges) ==
  IF userChanges = <<>> THEN w
  ELSE LET data == Head(userChanges) IN
       RecordChanges(
         log(addUserActivity(updateLeaderboard(w, data.userId, data.pixels, data.region),
                             data.userId, data.pixels, data.region, data.chunk),
             "User placed pixels"),
         Tail(userChanges))

\* History: what the deltas applied by a cycle amount to.  A coordinate counts
\* once, for the user of the last entry applied to it, when it lies inside
\* the stored bitmap and that user is not 0.
LastEntry(applied, tileKey, pixelKey) ==
  LET I == { i \in 1..Len(applied) :
               /\ applied[i][1] = tileKey
               /\ <<applied[i][2][1], applied[i][2][2]>> = pixelKey }
  IN applied[CHOOSE i \in I : \A j \in I : j <= i][2]

InBitmap(w, tileKey, pixelKey) ==
  /\ Has(w.tileCache, tileKey)
  /\ pixelKey[1] - tileKey[1] >= 0
  /\ pixelKey[1] - tileKey[1] < w.tileCache[tileKey].userBitmap.width
  /\ pixelKey[2] - tileKey[2] >= 0
  /\ pixelKey[2] - tileKey[2] < w.tileCache[tileKey].userBitmap.height

ExpectedPixels(w, applied, userId) ==
  Cardinality({ c \in { <<applied[i][1], <<applied[i][2][1], applied[i][2][2]>> >> :
                          i \in 1..Len(applied) } :
                  /\ InBitmap(w, c[1], c[2])
                  /\ LastEntry(applied, c[1], c[2])[4] = userId })

CountedPixels(userChanges, userId) ==
  IF \E i \in 1..Len(userChanges) : userChanges[i].userId = userId
  THEN LET i == CHOOSE i \in 1..Len(userChanges) : userChanges[i].userId = userId
       IN userChanges[i].pixels
  ELSE 0

Miscount(w, applied, userChanges) ==
  \E userId \in { applied[i][2][4] : i \in 1..Len(applied) }
                   \cup { userChanges[i].userId : i \in 1..Len(userChanges) } :
    /\ userId # 0
    /\ CountedPixels(userChanges, userId) # ExpectedPixels(w, applied, userId)

\* History: a coordinate the attribution of invocation s reads from
\* changedPixels was put there by no delta this invocation has applied.
Foreign(w, s) ==
  LET items == Candidates(w, w.sync[s].tilesWithChanges)
      applied == w.sync[s].applied
  IN \E k \in 1..Len(items) :
       ~\E i \in 1..Len(applied) :
          /\ applied[i][1] = items[k][1]
          /\ <<applied[i][2][1], applied[i][2][2]>> = items[k][2]

\* detectChanges(tilesWithChanges), called by invocation s
detectChanges(w, s) ==
  LET userChanges == UserChanges(<<>>, w, Candidates(w, w.sync[s].tilesWithChanges))
      w1 == [RecordChanges(w, userChanges) EXCEPT
               !.miscounted = @ \/ Miscount(w, w.sync[s].applied, userChanges),
               !.foreignRead = @ \/ Foreign(w, s)]
  IN IF Len(userChanges) > 0
     THEN [log(w1, "Detected changes") EXCEPT
             !.strayAttribution = @ \/ ~w.sync[s].appliedDelta]
     ELSE w1

\* ------------------------------------------------------------- performSync
\* evaluates e once and applies F to its value
Strict(F(_), e) == CHOOSE r \in { F(v) : v \in {e} } : TRUE

\* History: a payload of a response with this ServerTimestamp was applied to
\* the tile
Noted(w, applies, tileKey, serverTimestamp) ==
  IF applies THEN [w EXCEPT !.lastKnown = Put(@, tileKey, serverTimestamp)] ELSE w

\* processTile(tileKeyName, tileData, tilesWithChanges, serverTimestamp) for
\* the entry e of a response, up to its return or to its decodeWebP awaits
processTileMatched(w, s, e, match) ==
  LET tileKey == <<match.x, match.y>> IN
  IF ~match.ok THEN log(w, "Invalid tile key format")
  ELSE IF e.data.Type = "full"
  THEN [w EXCEPT !.sync[s].pc = "decode",
                 !.sync[s].cur = [name |-> e.name, data |-> e.data, tileKey |-> tileKey]]
  ELSE IF e.data.Type = "delta"
  THEN Noted(processTileDelta(w, s, tileKey, e.data, w.sync[s].serverTimestamp),
             Has(w.tileCache, tileKey), tileKey, w.sync[s].serverTimestamp)
  ELSE w

processTile(w, s, e) ==
  CHOOSE r \in { processTileMatched(w, s, e, match) : match \in {MatchFrom(e.name, 1)} } : TRUE

\* performSync from the point where it resumes or goes on in the loop over
\* the entries of a response (line 553), up to its next await or its end.  A
\* finished invocation is left with pc "settled" for its caller.
RECURSIVE RunFromEager(_, _)
RunFromEager(w, s) ==
  LET me == w.sync[s] IN
  IF me.batches # <<>>
  THEN [log(w, "Fetching") EXCEPT !.sync[s].pc = "fetch", !.sync[s].serverTimestamp = 0]
  ELSE IF me.queue # <<>>
  THEN LET e == Head(me.queue)
           w0 == [w EXCEPT !.sync[s].queue = Tail(@)]
       IN IF e.data.Type = "full" /\ Matches(e.name)
          THEN processTile(w0, s, e)
          ELSE Strict(LAMBDA v : RunFromEager(v, s), processTile(w0, s, e))
  ELSE IF ~me.hasAnyChanges
  THEN [log(w, "No changes detected") EXCEPT !.sync[s].pc = "settled"]
  ELSE [detectChanges(w, s) EXCEPT !.sync[s].pc = "settled"]

RECURSIVE RunFrom(_, _)
RunFrom(w, s) ==
  LET me == w.sync[s] IN
  IF me.queue # <<>>
  THEN LET e == Head(me.queue)
           w0 == [w EXCEPT !.sync[s].queue = Tail(@)]
       IN IF e.data.Type = "full" /\ Matches(e.name)
          THEN processTile(w0, s, e)
          ELSE Strict(LAMBDA v : RunFrom(v, s), processTile(w0, s, e))
  ELSE IF me.batches # <<>>
  THEN [log(w, "Fetching") EXCEPT !.sync[s].pc = "fetch", !.sync[s].serverTimestamp = 0]
  ELSE IF ~me.hasAnyChanges
  THEN [log(w, "No changes detected") EXCEPT !.sync[s].pc = "settled"]
  ELSE [detectChanges(w, s) EXCEPT !.sync[s].pc = "settled"]

\* lines 520-525: each tile with its last known timestamp
RequestTiles(w, tileKeys) ==
  [i \in 1..Len(tileKeys) |->
     [x |-> tileKeys[i][1], y |-> tileKeys[i][2],
      timestamp |-> IF Has(w.tileCache, tileKeys[i]) THEN w.tileCache[tileKeys[i]].timestamp
                    ELSE 0]]

\* performSync() up to its first await, in the free slot s
performSync(w, s) ==
  LET w0 == [w EXCEPT !.changedPixels = EmptyMap]
      tileKeys == calculateRequiredTiles(w.regions)
  IN IF tileKeys = <<>>
     THEN [log(w0, "No tiles to fetch") EXCEPT !.sync[s] = [FreeSync EXCEPT !.pc = "settled"]]
     ELSE [log(w0, "Fetching") EXCEPT
             !.sync[s] = [FreeSync EXCEPT !.pc = "fetch",
                                          !.batches = Batches(RequestTiles(w, tileKeys))]]

\* ------------------------------------------------------------ the scheduler
\* setTimeout(..., pollingInterval * 1000): the delay of the poll timer
TimerDelayShort(pollingInterval) == pollingInterval - 1
TimerDelay(pollingInterval) == pollingInterval

\* scheduleNextSync(pollingInterval), called by chain c
scheduleNextSync(w, c) ==
  IF ~w.isMonitoring THEN [w EXCEPT !.chain[c] = FreeChain]
  ELSE [w EXCEPT !.chain[c] = [pc |-> "timer", sync |-> 0,
                               remaining |-> TimerDelay(PollingInterval),
                               ceiling |-> NoCeiling, waited |-> 0,
                               failed |-> w.chain[c].failed],
                 !.pollTimer = c]

\* the chain whose await (line 466 or line 497) the invocation s would release
Awaiters(w, s) ==
  { c \in Chains : w.chain[c].pc \in {"initial", "racing"} /\ w.chain[c].sync = s }

\* the promise of invocation s settles: the awaiting chain, if there still is
\* one, goes on to scheduleNextSync in the same macrotask
SettledDropsFailure(w, s) ==
  LET w1 == [w EXCEPT !.sync[s] = FreeSync] IN
  IF Awaiters(w, s) = {} THEN w1
  ELSE LET c == CHOOSE c \in Awaiters(w, s) : TRUE IN
       IF w.sync[s].failed THEN [w1 EXCEPT !.chain[c] = [FreeChain EXCEPT !.failed = TRUE]]
       ELSE scheduleNextSync(w1, c)
Settled(w, s) ==
  LET w1 == [w EXCEPT !.sync[s] = FreeSync] IN
  IF Awaiters(w, s) = {} THEN w1
  ELSE LET c == CHOOSE c \in Awaiters(w, s) : TRUE IN
       scheduleNextSync([w1 EXCEPT !.chain[c].failed = w.sync[s].failed], c)

AfterStep(w, s) == IF w.sync[s].pc = "settled" THEN Settled(w, s) ELSE w

IsFreeChain(c) == chain[c].pc = "free" /\ \A d \in Chains : d < c => chain[d].pc # "free"
IsFreeSync(s) == sync[s].pc = "free" /\ \A d \in Syncs : d < s => sync[d].pc # "free"

\* startMonitoring: the two early returns
CanStartAlways(w) == Len(w.regions) # 0
CanStartNoRegions(w) == ~w.isMonitoring
CanStart(w) == ~w.isMonitoring /\ Len(w.regions) # 0

startMonitoring ==
  IF ~CanStart(Cur) THEN UNCHANGED vars
  ELSE \E c \in Chains, s \in Syncs :
         /\ IsFreeChain(c)
         /\ IsFreeSync(s)
         /\ LET w0 == log([Cur EXCEPT !.isMonitoring = TRUE], "Starting monitoring")
                w1 == [w0 EXCEPT !.chain[c] = [FreeChain EXCEPT !.pc = "initial", !.sync = s]]
            IN \E w2 \in {performSync(w1, s)} : \E w3 \in {AfterStep(w2, s)} : Becomes(w3)

\* clearTimeout(pollTimer)
clearTimeout(w, t) ==
  IF t \in Chains /\ w.chain[t].pc = "timer" THEN [w EXCEPT !.chain[t] = FreeChain] ELSE w

stopMonitoring ==
  LET w0 == [Cur EXCEPT !.isMonitoring = FALSE, !.everStopped = TRUE]
      w1 == IF w0.pollTimer # NoTimer
            THEN [clearTimeout(w0, w0.pollTimer) EXCEPT !.pollTimer = NoTimer]
            ELSE w0
  IN \E w2 \in {log(w1, "Monitoring stopped")} : Becomes(w2)

\* the callback of the poll timer of chain c (lines 490-507), up to its await
timerCallback(c) ==
  /\ chain[c].pc = "timer"
  /\ chain[c].remaining = 0
  /\ \E s \in Syncs :
       /\ IsFreeSync(s)
       /\ LET w0 == [Cur EXCEPT !.pollTimer = IF @ = c THEN Stale ELSE @,
                                !.chain[c] = [pc |-> "racing", sync |-> s, remaining |-> 0,
                                              ceiling |-> SYNC_TIMEOUT, waited |-> 0,
                                              failed |-> FALSE]]
          IN \E w2 \in {performSync(w0, s)} : \E w3 \in {AfterStep(w2, s)} : Becomes(w3)

\* the ceiling timer of the callback of chain c fires first: Promise.race
\* rejects, the catch logs the timeout and schedules the next sync; the
\* performSync invocation stays unsettled
syncTimeout(c) ==
  /\ chain[c].pc = "racing"
  /\ chain[c].ceiling = 0
  /\ \E w1 \in {log(Cur, "Sync timeout")} : \E w2 \in {scheduleNextSync(w1, c)} : Becomes(w2)

\* one tick passes.  A cached profile is kept with its age, Date.now() -
\* fetchedAt, in ticks; ages past the TTL are not told apart.
MaxAge == TTL + 1
Dec(n) == IF n > 0 THEN n - 1 ELSE 0
Tick ==
  /\ chain' = [c \in Chains |->
       IF chain[c].pc = "timer"
       THEN [chain[c] EXCEPT !.remaining = Dec(@),
                             !.waited = IF @ < PollingInterval THEN @ + 1 ELSE @]
       ELSE IF chain[c].pc = "racing" THEN [chain[c] EXCEPT !.ceiling = Dec(@)]
       ELSE chain[c]]
  /\ userProfileCache' = [userId \in DOMAIN userProfileCache |->
       [userProfileCache[userId] EXCEPT !.age = IF @ < MaxAge THEN @ + 1 ELSE @]]
  /\ UNCHANGED <<regions, isMonitoring, pollTimer, activityLog, logged, sync, everStopped, storeVars,
                 pendingUserRequests, profileFetches, resolved, cleared>>

\* ------------------------------------------------------------ fetchTiles
\* fetch rejects, or the status is not ok: fetchTiles throws, the catch of
\* performSync logs it and the invocation settles
fetchTilesFails(s) ==
  /\ sync[s].pc = "fetch"
  /\ \E w1 \in {[log(Cur, "Sync error") EXCEPT !.sync[s].pc = "settled",
                                                  !.sync[s].failed = TRUE]} :
       \E w2 \in {AfterStep(w1, s)} : Becomes(w2)

\* fetchTiles resolves with the parsed response (lines 541-558)
ReceivedKeepsUntimed(w, s, response) ==
  IF response.Tiles = <<>> THEN log(w, "No tile data returned")
  ELSE [w EXCEPT !.sync[s].queue = response.Tiles,
                 !.sync[s].serverTimestamp = response.ServerTimestamp,
                 !.sync[s].untimed = @ \/ response.ServerTimestamp = 0]

\* lines 541-551: a response without ServerTimestamp (0 stands for none) or
\* without tiles is skipped
Received(w, s, response) ==
  IF response.ServerTimestamp = 0
  THEN [log(w, "Missing ServerTimestamp") EXCEPT !.sync[s].untimed = TRUE]
  ELSE IF response.Tiles = <<>> THEN log(w, "No tile data returned")
  ELSE [w EXCEPT !.sync[s].queue = response.Tiles,
                 !.sync[s].serverTimestamp = response.ServerTimestamp]

\* the invocation goes on with the response, up to its next await or its end
Responded(w, s, response) ==
  Strict(LAMBDA v : RunFrom(v, s),
         Received([w EXCEPT !.sync[s].batches = Tail(@)], s, response))

fetchTilesResponds(s, response) ==
  /\ sync[s].pc = "fetch"
  /\ \E w1 \in {Responded(Cur, s, response)} : \E w2 \in {AfterStep(w1, s)} : Becomes(w2)

\* both images of the full entry being processed have been decoded
decodeSettles(s) ==
  /\ sync[s].pc = "decode"
  /\ \E w0 \in {Noted(processTileFull(Cur, s), TRUE, sync[s].cur.tileKey,
                        sync[s].serverTimestamp)} :
       \E w1 \in {RunFrom(w0, s)} : \E w2 \in {AfterStep(w1, s)} : Becomes(w2)

\* the rejection of decodeWebP leaves performSync uncaught: the await of the
\* scheduler throws and its chain ends
decodeRejectedUncaught(w, s) ==
  [log(w, "Sync error") EXCEPT
     !.sync[s].pc = "settled", !.sync[s].failed = TRUE,
     !.chain = [c \in Chains |-> IF c \in Awaiters(w, s) THEN FreeChain ELSE @[c]]]

\* img.onerror: decodeWebP rejects, the catch of performSync logs it
decodeRejected(w, s) ==
  [log(w, "Sync error") EXCEPT !.sync[s].pc = "settled", !.sync[s].failed = TRUE]

decodeFails(s) ==
  /\ sync[s].pc = "decode"
  /\ \E w1 \in {decodeRejected(Cur, s)} : \E w2 \in {AfterStep(w1, s)} : Becomes(w2)

\* ---------------------------------------------------------- region manager
\* regions.push(...) (line 365) while the registry holds fewer than limit regions
pushRegion(r, limit) ==
  /\ Len(regions) < limit
  /\ \A i \in 1..Len(regions) : regions[i].id # r.id
  /\ regions' = Append(regions, r)
  /\ UNCHANGED <<activityLog, logged, sync, schedVars, storeVars, profileVars>>

addRegion(r) == pushRegion(r, MaxRegions)

\* regions.filter(r => r.id !== id)
RECURSIVE Without(_, _)
Without(rs, id) ==
  IF rs = <<>> THEN <<>>
  ELSE IF Head(rs).id = id THEN Without(Tail(rs), id)
  ELSE <<Head(rs)>> \o Without(Tail(rs), id)

removeRegion(id) ==
  /\ regions' = Without(regions, id)
  /\ UNCHANGED <<activityLog, logged, sync, schedVars, storeVars, profileVars>>

\* ------------------------------------------------- scheduler specification
\* the responses of a server that has nothing new: no timestamp, or no tiles
SchedResponses == { [ServerTimestamp |-> ts, Tiles |-> <<>>] : ts \in {0, 1} }

InitSched ==
  /\ regions = <<>>
  /\ isMonitoring = FALSE
  /\ pollTimer = NoTimer
  /\ activityLog = <<>>
  /\ logged = <<>>
  /\ chain = [c \in Chains |-> FreeChain]
  /\ sync = [s \in Syncs |-> FreeSync]
  /\ everStopped = FALSE
  /\ tileCache = EmptyMap
  /\ tileChecksums = EmptyMap
  /\ changedPixels = EmptyMap
  /\ leaderboard = EmptyMap
  /\ userActivity = <<>>
  /\ strayAttribution = FALSE
  /\ miscounted = FALSE
  /\ foreignRead = FALSE
  /\ lastKnown = EmptyMap
  /\ userProfileCache = EmptyMap
  /\ pendingUserRequests = EmptyMap
  /\ profileFetches = EmptyMap
  /\ resolved = <<>>
  /\ cleared = {}

NextSched ==
  \/ startMonitoring
  \/ stopMonitoring
  \/ \E c \in Chains : timerCallback(c)
  \/ \E c \in Chains : syncTimeout(c)
  \/ Tick
  \/ \E s \in Syncs : fetchTilesFails(s)
  \/ \E s \in Syncs, response \in SchedResponses : fetchTilesResponds(s, response)
  \/ \E r \in SchedRegionPool : addRegion(r)
  \/ \E r \in SchedRegionPool : removeRegion(r.id)

SpecSched == InitSched /\ [][NextSched]_vars

\* ------------------------------------------------ tile store specification
\* The tile store, driven by overlapping cycles.  The scheduler is the
\* environment here: it calls performSync() (line 466, line 497), also while
\* earlier invocations are unsettled, and awaits none of them.
invokePerformSync ==
  /\ Len(userActivity) < MaxActivity
  /\ \E s \in Syncs :
       /\ IsFreeSync(s)
       /\ \E w1 \in {performSync(Cur, s)} : \E w2 \in {AfterStep(w1, s)} : Becomes(w2)

\* what the server may send
\* the decimal digits of n >= 0, and String(n)
RECURSIVE Digits(_)
Digits(n) == IF n < 10 THEN <<DigitChars[n + 1]>> ELSE Digits(n \div 10) \o <<DigitChars[(n % 10) + 1]>>
Str(n) == IF n < 0 THEN <<"-">> \o Digits(0 - n) ELSE Digits(n)

\* "tile_<x>_<y>", an identifier with no such part, and identifiers that hold
\* one among other characters
TileName(x, y) == <<"t", "i", "l", "e", "_">> \o Str(x) \o <<"_">> \o Str(y)
BadName == <<"b", "a", "d">>
PaddedNames == { TileName(0, 0) \o <<"x">>, <<"x">> \o TileName(0, 0) }
Full(colorBitmap, userBitmap) ==
  [Type |-> "full", ColorWebP |-> colorBitmap, UserWebP |-> userBitmap, Pixels |-> <<>>]
Delta(pixels) == [Type |-> "delta", ColorWebP |-> <<>>, UserWebP |-> <<>>, Pixels |-> pixels]

\* 2 x 1 images: RGBA bytes, the color index in the first byte of a pixel
ColorImage(c1, c2) == Bitmap(2, 1, <<c1, 0, 0, 255, c2, 0, 0, 255>>)
UserImage(u1, u2) == Bitmap(2, 1, UserBytes(u1) \o UserBytes(u2))

\* user 7937 = bytes 1, 31, 0, 0: its image has the checksum of the empty one
FullPool ==
  { Full(ColorImage(1, 0), UserImage(0, 0)), Full(ColorImage(2, 0), UserImage(7937, 0)),
    Full(ColorImage(1, 0), UserImage(7, 0)) }

\* the deltas: one pixel of user 7 inside region A, and an empty one
DeltaPool == { Delta(<< <<0, 0, 1, 7>> >>), Delta(<<>>) }

EntryPool ==
  { [name |-> TileName(0, 0), data |-> d] : d \in FullPool \cup DeltaPool }

\* an entry whose identifier names no tile, and entries whose identifier
\* holds the identifier of tile (0,0) and more
OddPool ==
  { [name |-> BadName, data |-> Delta(<<>>)] }
    \cup { [name |-> n, data |-> Delta(<< <<0, 0, 1, 7>> >>)] : n \in PaddedNames }

\* a response without ServerTimestamp, one without tiles, and responses with
\* one entry: a first image, a later image, a later delta, an odd identifier
StoreResponses ==
  { [ServerTimestamp |-> 0, Tiles |-> <<>>], [ServerTimestamp |-> 1, Tiles |-> <<>>] }
    \cup { [ServerTimestamp |-> 1, Tiles |-> << [name |-> TileName(0, 0), data |-> d] >>] :
             d \in { Full(ColorImage(1, 0), UserImage(0, 0)) } }
    \cup { [ServerTimestamp |-> 2, Tiles |-> << [name |-> TileName(0, 0), data |-> d] >>] :
             d \in FullPool }
    \cup { [ServerTimestamp |-> 2, Tiles |-> << [name |-> TileName(0, 0), data |-> d] >>] :
             d \in DeltaPool }
    \cup { [ServerTimestamp |-> 2, Tiles |-> <<e>>] : e \in OddPool }

InitStore ==
  /\ regions = << Region(1, "A", 0, 0, 1, 1) >>
  /\ isMonitoring = FALSE
  /\ pollTimer = NoTimer
  /\ activityLog = <<>>
  /\ logged = <<>>
  /\ chain = [c \in Chains |-> FreeChain]
  /\ sync = [s \in Syncs |-> FreeSync]
  /\ everStopped = FALSE
  /\ tileCache = EmptyMap
  /\ tileChecksums = EmptyMap
  /\ changedPixels = EmptyMap
  /\ leaderboard = EmptyMap
  /\ userActivity = <<>>
  /\ strayAttribution = FALSE
  /\ miscounted = FALSE
  /\ foreignRead = FALSE
  /\ lastKnown = EmptyMap
  /\ userProfileCache = EmptyMap
  /\ pendingUserRequests = EmptyMap
  /\ profileFetches = EmptyMap
  /\ resolved = <<>>
  /\ cleared = {}

NextStore ==
  \/ invokePerformSync
  \/ \E s \in Syncs : fetchTilesFails(s)
  \/ \E s \in Syncs, response \in StoreResponses : fetchTilesResponds(s, response)
  \/ \E s \in Syncs : decodeSettles(s)
  \/ \E s \in Syncs : decodeFails(s)

SpecStore == InitStore /\ [][NextStore]_vars

\* ----------------------------------------------- attribution specification
\* Cycles over a region of two tiles: a response may hold a delta for tile
\* (0,0) followed by the first image of tile (1000,0), so that the cycle is
\* suspended between applying the delta and detectChanges.
AttrTwice == Delta(<< <<0, 0, 1, 7>>, <<1, 0, 2, 33554435>>, <<0, 0, 2, 9>> >>)
AttrDeltaPool == { AttrTwice, Delta(<< <<0, 0, 1, 9>>, <<0, 0, 3, 0>>, <<5, 0, 1, 7>> >>) }

AttrFirst == [name |-> TileName(0, 0), data |-> Full(ColorImage(1, 0), UserImage(0, 0))]
AttrSecond == [name |-> TileName(1000, 0), data |-> Full(ColorImage(1, 0), UserImage(0, 0))]

AttrResponses ==
  { [ServerTimestamp |-> 1, Tiles |-> <<AttrFirst>>] }
    \cup { [ServerTimestamp |-> 1, Tiles |-> << [name |-> TileName(0, 0), data |-> d] >>] :
             d \in AttrDeltaPool }
    \cup { [ServerTimestamp |-> 1,
            Tiles |-> << [name |-> TileName(0, 0), data |-> AttrTwice], AttrSecond >>] }

InitAttr ==
  /\ regions = << Region(1, "A", 0, 0, 1000, 1) >>
  /\ isMonitoring = FALSE
  /\ pollTimer = NoTimer
  /\ activityLog = <<>>
  /\ logged = <<>>
  /\ chain = [c \in Chains |-> FreeChain]
  /\ sync = [s \in Syncs |-> FreeSync]
  /\ everStopped = FALSE
  /\ tileCache = EmptyMap
  /\ tileChecksums = EmptyMap
  /\ changedPixels = EmptyMap
  /\ leaderboard = EmptyMap
  /\ userActivity = <<>>
  /\ strayAttribution = FALSE
  /\ miscounted = FALSE
  /\ foreignRead = FALSE
  /\ lastKnown = EmptyMap
  /\ userProfileCache = EmptyMap
  /\ pendingUserRequests = EmptyMap
  /\ profileFetches = EmptyMap
  /\ resolved = <<>>
  /\ cleared = {}

NextAttr ==
  \/ invokePerformSync
  \/ \E s \in Syncs : fetchTilesFails(s)
  \/ \E s \in Syncs, response \in AttrResponses : fetchTilesResponds(s, response)
  \/ \E s \in Syncs : decodeSettles(s)
  \/ \E s \in Syncs : decodeFails(s)

SpecAttr == InitAttr /\ [][NextAttr]_vars

\* ---------------------------------------------- user group specification
\* Cycles in which one user changes pixels of both tiles: the first images of
\* the two tiles, then a delta for each tile, in either order.  The coordinate
\* (1000,0) lies in no region.
GroupLeft == [name |-> TileName(0, 0), data |-> Delta(<< <<0, 0, 1, 9>> >>)]
GroupRight ==
  [name |-> TileName(1000, 0), data |-> Delta(<< <<1000, 0, 2, 9>>, <<1001, 0, 2, 7>> >>)]

GroupResponses ==
  { [ServerTimestamp |-> 1, Tiles |-> <<AttrFirst, AttrSecond>>],
    [ServerTimestamp |-> 2, Tiles |-> <<GroupLeft, GroupRight>>],
    [ServerTimestamp |-> 2, Tiles |-> <<GroupRight, GroupLeft>>] }

NextGroups ==
  \/ invokePerformSync
  \/ \E s \in Syncs : fetchTilesFails(s)
  \/ \E s \in Syncs, response \in GroupResponses : fetchTilesResponds(s, response)
  \/ \E s \in Syncs : decodeSettles(s)
  \/ \E s \in Syncs : decodeFails(s)

SpecGroups == InitAttr /\ [][NextGroups]_vars

\* ------------------------------------------------ batching specification
\* Cycles over a region of five tiles, which take two requests.  The server
\* answers for tiles of the request: here for its first tile, with or
\* without ServerTimestamp, with one entry or with two.
BatchFull == Full(ColorImage(1, 0), UserImage(0, 0))
BatchDelta == Delta(<< <<0, 0, 3, 0>> >>)

BatchResponses(batch) ==
  LET name == TileName(batch[1].x, batch[1].y) IN
  { [ServerTimestamp |-> 0, Tiles |-> << [name |-> name, data |-> BatchFull] >>],
    [ServerTimestamp |-> 1, Tiles |-> << [name |-> name, data |-> BatchFull] >>] }
    \cup { [ServerTimestamp |-> 2, Tiles |-> tiles] :
             tiles \in IF batch[1].x = 0
                       THEN { << [name |-> name, data |-> BatchDelta] >>,
                              << [name |-> name, data |-> BatchFull],
                                 [name |-> name, data |-> BatchDelta] >> }
                       ELSE {} }

fetchTilesAnswers(s) ==
  /\ sync[s].pc = "fetch"
  /\ \E response \in BatchResponses(Head(sync[s].batches)) : fetchTilesResponds(s, response)

InitBatch ==
  /\ regions = << Region(1, "A", 0, 0, 4000, 1) >>
  /\ isMonitoring = FALSE
  /\ pollTimer = NoTimer
  /\ activityLog = <<>>
  /\ logged = <<>>
  /\ chain = [c \in Chains |-> FreeChain]
  /\ sync = [s \in Syncs |-> FreeSync]
  /\ everStopped = FALSE
  /\ tileCache = EmptyMap
  /\ tileChecksums = EmptyMap
  /\ changedPixels = EmptyMap
  /\ leaderboard = EmptyMap
  /\ userActivity = <<>>
  /\ strayAttribution = FALSE
  /\ miscounted = FALSE
  /\ foreignRead = FALSE
  /\ lastKnown = EmptyMap
  /\ userProfileCache = EmptyMap
  /\ pendingUserRequests = EmptyMap
  /\ profileFetches = EmptyMap
  /\ resolved = <<>>
  /\ cleared = {}

NextBatch ==
  \/ invokePerformSync
  \/ \E s \in Syncs : fetchTilesFails(s)
  \/ \E s \in Syncs : fetchTilesAnswers(s)
  \/ \E s \in Syncs : decodeSettles(s)
  \/ \E s \in Syncs : decodeFails(s)

SpecBatch == InitBatch /\ [][NextBatch]_vars

\* ------------------------------------------- aborted cycle specification
\* The cycles of the batch specification, with a delta of user 7 for tile
\* (0,0) in the answer to the first request: the second request of the cycle
\* may fail after the delta was applied.
AbortDelta == Delta(<< <<0, 0, 3, 7>> >>)

AbortResponses(batch) ==
  LET name == TileName(batch[1].x, batch[1].y) IN
  { [ServerTimestamp |-> 1, Tiles |-> << [name |-> name, data |-> BatchFull] >>] }
    \cup { [ServerTimestamp |-> 2, Tiles |-> << [name |-> name, data |-> AbortDelta] >>] :
             x \in {batch[1].x} \cap {0} }

fetchTilesReplies(s) ==
  /\ sync[s].pc = "fetch"
  /\ \E response \in AbortResponses(Head(sync[s].batches)) : fetchTilesResponds(s, response)

NextAbort ==
  \/ invokePerformSync
  \/ \E s \in Syncs : fetchTilesFails(s)
  \/ \E s \in Syncs : fetchTilesReplies(s)
  \/ \E s \in Syncs : decodeSettles(s)
  \/ \E s \in Syncs : decodeFails(s)

SpecAbort == InitBatch /\ [][NextAbort]_vars

\* ------------------------------------------------- resolver specification
\* A page that has loaded a leaderboard and a user activity list from
\* localStorage (lines 70-78).  resolveUsername is called from its call sites
\* (lines 803, 974, 1017, 1065) in any order, profile requests are answered in
\* any order, and time passes.
ProfileIds == {0, 7, 9}
CallSites == { {}, {"renderLeaderboard"}, {"renderUserActivity"} }

callResolveUsername(userId, then) ==
  \E w1 \in {ResolveThen(Cur, userId, then)} : Becomes(w1)

\* the response of a GetUserProfile request arrives, or its fetch rejects;
\* then the callbacks chained to the calls that waited for it run
profileSettles(t, outcome) ==
  /\ t \in DOMAIN profileFetches
  /\ \E w1 \in {Answered(Cur, t, outcome)} :
       \E w2 \in {Chained(w1, profileFetches[t].then)} : Becomes(w2)

SavedLeaderboard ==
  (<<7, "A">> :> [userId |-> 7, region |-> "A", pixels |-> 1])
    @@ (<<9, "A">> :> [userId |-> 9, region |-> "A", pixels |-> 1])
SavedActivity == << [userId |-> 7, pixels |-> 1, region |-> "A", chunk |-> <<0, 0>>] >>

InitProfile ==
  /\ regions = <<>>
  /\ isMonitoring = FALSE
  /\ pollTimer = NoTimer
  /\ activityLog = <<>>
  /\ logged = <<>>
  /\ chain = [c \in Chains |-> FreeChain]
  /\ sync = [s \in Syncs |-> FreeSync]
  /\ everStopped = FALSE
  /\ tileCache = EmptyMap
  /\ tileChecksums = EmptyMap
  /\ changedPixels = EmptyMap
  /\ leaderboard = SavedLeaderboard
  /\ userActivity = SavedActivity
  /\ strayAttribution = FALSE
  /\ miscounted = FALSE
  /\ foreignRead = FALSE
  /\ lastKnown = EmptyMap
  /\ userProfileCache = EmptyMap
  /\ pendingUserRequests = EmptyMap
  /\ profileFetches = EmptyMap
  /\ resolved = <<>>
  /\ cleared = {}

NextProfile ==
  \/ \E userId \in ProfileIds, then \in CallSites : callResolveUsername(userId, then)
  \/ \E t \in 1..Cardinality(ProfileIds), outcome \in ProfileOutcomes : profileSettles(t, outcome)
  \/ Tick

SpecProfile == InitProfile /\ [][NextProfile]_vars

\* The resolver while no cached profile gets old, with every request answered
\* in the end: the browser settles each fetch, with a response or an error.
ProfileAnswered(t) == \E outcome \in ProfileOutcomes : profileSettles(t, outcome)

NextAnswered ==
  \/ \E userId \in ProfileIds, then \in CallSites : callResolveUsername(userId, then)
  \/ \E t \in 1..Cardinality(ProfileIds) : ProfileAnswered(t)

SpecAnswered ==
  /\ InitProfile /\ [][NextAnswered]_vars
  /\ \A t \in 1..Cardinality(ProfileIds) : WF_vars(ProfileAnswered(t))

\* ------------------------------------------ one session, never stopped
\* The scheduler when stop() is never called, under the browser's
\* scheduling: time passes, an expired timer runs its callback, a fetch settles.
\* the server has nothing new, or sends the first image of the tile
SessionResponses ==
  SchedResponses \cup
    { [ServerTimestamp |-> 1,
       Tiles |-> << [name |-> TileName(0, 0),
                     data |-> Full(ColorImage(1, 0), UserImage(7, 0))] >>] }

Progress ==
  \/ Tick
  \/ \E c \in Chains : timerCallback(c)
  \/ \E s \in Syncs : fetchTilesFails(s)
  \/ \E s \in Syncs, response \in SessionResponses : fetchTilesResponds(s, response)

NextSession ==
  \/ startMonitoring
  \/ \E c \in Chains : syncTimeout(c)
  \/ \E s \in Syncs : decodeSettles(s)
  \/ \E s \in Syncs : decodeFails(s)
  \/ \E r \in SchedRegionPool : addRegion(r)
  \/ \E r \in SchedRegionPool : removeRegion(r.id)
  \/ Progress

SpecSession == InitSched /\ [][NextSession]_vars /\ WF_vars(Progress)

\* ------------------------------------------------------- log specification
\* The log under calls of log and clearLog.
LogMessages ==
  {"Fetching", "No changes detected", "Applied deltas", "Detected changes",
   "Missing ServerTimestamp"}

callLog(message) ==
  /\ Len(logged) < MaxLogged
  /\ \E w \in {log(Cur, message)} : Becomes([w EXCEPT !.logged = Append(@, message)])

clearLog == Becomes([Cur EXCEPT !.activityLog = <<>>, !.logged = <<>>])

NextLog ==
  \/ \E message \in LogMessages : callLog(message)
  \/ clearLog

SpecLog == InitSched /\ [][NextLog]_vars

\* ------------------------------------------------ region manager specification
\* The registry under addRegion, importRegions and removeRegion.  Taiga is the
\* test region of README.md.
RegistryPool ==
  { Region(1, "A", 0, 0, 1, 1), Region(2, "B", 0, 0, 2, 2), Region(3, "C", 1, 1, 2, 1),
    Region(4, "Taiga", -434645, 136000, 3276, 4902), Region(5, "E", -1, -1, 1, 1),
    Region(6, "Core", -434645, 136000, 10, 10) }

NextRegions ==
  \/ \E r \in RegistryPool : pushRegion(r, MaxRegistry)
  \/ \E r \in RegistryPool : removeRegion(r.id)

SpecRegions == InitSched /\ [][NextRegions]_vars

\* ------------------------------------------------------ scheduler claims
Awaiting(c) == chain[c].pc \in {"initial", "racing"}
Unsettled == { s \in Syncs : sync[s].pc # "free" }

\* C1: as long as stop() has not been called there is one scheduling chain
\* at most, and it either awaits one cycle or has its timer armed: the timer
\* is armed only once the awaited cycle has settled or timed out, and no
\* second cycle is awaited meanwhile.
C1_OneCycleAwaited ==
  ~everStopped => Cardinality({ c \in Chains : chain[c].pc # "free" }) <= 1

\* a cycle that lost the race is still running while the next one is awaited
C1_Witness ==
  /\ ~everStopped
  /\ \E c \in Chains : chain[c].pc = "racing"
  /\ Cardinality(Unsettled) = 2

\* C2: at no reachable state are two performSync invocations started by the
\* scheduler both unsettled.
C2_NoTwoUnsettled == Cardinality(Unsettled) <= 1

\* C3: after stop() and until a later start() no cycle begins: a timer
\* callback runs only while monitoring is on.
C3_NoCycleWhileStopped ==
  [][(\E c \in Chains : timerCallback(c)) => isMonitoring]_vars

\* C4: every cycle the scheduler awaits, the initial sync included, has the
\* ceiling timer running against it.
C4_EveryCycleHasCeiling ==
  \A c \in Chains : Awaiting(c) => chain[c].ceiling # NoCeiling

\* C5: a timer-driven cycle begins only when the full polling interval has
\* passed since its timer was armed, and the timer is armed in the step in
\* which the awaited cycle settles or times out.
C5_FullIntervalFromEnd ==
  [][\A c \in Chains :
       /\ timerCallback(c) => chain[c].waited >= PollingInterval
       /\ (Awaiting(c) /\ chain'[c].pc = "timer")
            => chain'[c].waited = 0 /\ chain'[c].remaining = PollingInterval]_vars

\* a timer-driven cycle is being awaited
C5_Witness == \E c \in Chains : chain[c].pc = "racing" /\ sync[chain[c].sync].pc = "fetch"

\* C6: start() called while monitoring, or with no region registered, starts
\* no cycle, arms no timer and leaves the flag alone; a start() that does
\* begin polling was called with the flag off and a region registered.
C6_StartGuard ==
  [][startMonitoring =>
       /\ (isMonitoring \/ Len(regions) = 0) => UNCHANGED <<isMonitoring, pollTimer, chain, sync>>
       /\ (chain' # chain \/ sync' # sync) => ~isMonitoring /\ Len(regions) # 0]_vars

\* monitoring is on and the registry is empty: start() is refused on both counts
C6_Witness == isMonitoring /\ Len(regions) = 0 /\ \E c \in Chains : Awaiting(c)

\* C7: when the cycle the scheduler awaited has failed (its fetch rejected or
\* answered with a status that is not ok) and stop() is not called, the
\* scheduler eventually begins its next cycle.
\* (A chain's failed mark is cleared only by its timer callback, at the call of
\* performSync; with no tile to fetch that cycle ends in the same step.)
C7_FailureDoesNotStopScheduler ==
  \A c \in Chains : chain[c].failed ~> (chain[c].pc # "free" /\ ~chain[c].failed)

\* the awaited cycle failed and the scheduler waits for its timer
C7_Witness ==
  \E c \in Chains : chain[c].failed /\ chain[c].pc = "timer" /\ chain[c].remaining > 0

\* ------------------------------------------------------ tile store claims
\* invocation s is suspended in the full branch of processTile
Decoding(s) == sync[s].pc = "decode"
CurKey(s) == TileKeyOf(sync[s].cur.name)
CurChecksum(s) == computeTileChecksum(sync[s].cur.data.UserWebP)
\* the entry built from the decoded images and the timestamp of the response
Decoded(s) ==
  [colorBitmap |-> sync[s].cur.data.ColorWebP, userBitmap |-> sync[s].cur.data.UserWebP,
   timestamp |-> sync[s].serverTimestamp]
ReportsUnchanged(r, s) ==
  /\ r.sync[s].hasAnyChanges = sync[s].hasAnyChanges
  /\ r.sync[s].tilesWithChanges = sync[s].tilesWithChanges

\* C8: a full payload for a tile that has no stored entry stores the decoded
\* bitmaps, the server timestamp of the response and the checksum of the user
\* plane, and reports unchanged: the tile is not added to the changed tiles.
C8_FullBaseline ==
  \A s \in Syncs :
    (Decoding(s) /\ ~Has(tileCache, CurKey(s))) =>
      \A r \in {processTileFull(Cur, s)} :
        /\ Has(r.tileCache, CurKey(s)) /\ r.tileCache[CurKey(s)] = Decoded(s)
        /\ Has(r.tileChecksums, CurKey(s)) /\ r.tileChecksums[CurKey(s)] = CurChecksum(s)
        /\ ReportsUnchanged(r, s)
        /\ r.changedPixels = changedPixels

\* a baseline with a user in it is stored and its cycle has found no changes
C8_Witness ==
  /\ Has(tileCache, <<0, 0>>)
  /\ tileCache[<<0, 0>>].userBitmap = UserImage(7, 0)
  /\ tileChecksums[<<0, 0>>] = computeTileChecksum(UserImage(7, 0))
  /\ activityLog # <<>> /\ activityLog[Len(activityLog)] = "No changes detected"
  /\ leaderboard = EmptyMap

\* a full payload arrives for a stored tile with the checksum of the stored one
SameChecksum(s) ==
  /\ Decoding(s)
  /\ Has(tileChecksums, CurKey(s))
  /\ tileChecksums[CurKey(s)] = CurChecksum(s)

\* C9, as claimed: a full payload whose checksum equals the stored one
\* changes only the stored timestamp, the stored color bitmap, user bitmap and
\* checksum are left as they were, and it reports unchanged.
C9_OnlyTimestamp ==
  \A s \in Syncs :
    SameChecksum(s) =>
      \A r \in {processTileFull(Cur, s)} :
        /\ r.tileCache[CurKey(s)] =
             [tileCache[CurKey(s)] EXCEPT !.timestamp = sync[s].serverTimestamp]
        /\ r.tileChecksums = tileChecksums
        /\ ReportsUnchanged(r, s)

\* C9, amended: a full payload whose checksum equals the stored one replaces
\* the stored color and user bitmaps by the decoded ones and the stored
\* timestamp by that of the response, leaves the stored checksum as it was and
\* reports unchanged.
C9_ReplacesEntryKeepsChecksum ==
  \A s \in Syncs :
    SameChecksum(s) =>
      \A r \in {processTileFull(Cur, s)} :
        /\ r.tileCache[CurKey(s)] = Decoded(s)
        /\ r.tileChecksums = tileChecksums
        /\ ReportsUnchanged(r, s)
        /\ r.changedPixels = changedPixels

\* the decoded images differ from the stored ones although the checksums agree
C9_Witness ==
  \E s \in Syncs :
    /\ SameChecksum(s)
    /\ sync[s].cur.data.ColorWebP # tileCache[CurKey(s)].colorBitmap
    /\ sync[s].cur.data.UserWebP # tileCache[CurKey(s)].userBitmap
    /\ processTileFull(Cur, s).tileCache[CurKey(s)].colorBitmap = sync[s].cur.data.ColorWebP

\* C10: a full payload whose checksum differs from the stored one overwrites
\* the stored bitmaps, timestamp and checksum, reports changed and adds
\* nothing to the changed pixels; and no cycle that has applied no delta
\* (whose only changes are full refreshes) adds to the leaderboard or to the
\* user activity.
C10_FullRefreshNotAttributed ==
  /\ \A s \in Syncs :
       (Decoding(s) /\ Has(tileChecksums, CurKey(s))
          /\ tileChecksums[CurKey(s)] # CurChecksum(s)) =>
         \A r \in {processTileFull(Cur, s)} :
           /\ r.tileCache[CurKey(s)] = Decoded(s)
           /\ r.tileChecksums[CurKey(s)] = CurChecksum(s)
           /\ r.sync[s].hasAnyChanges
           /\ \E i \in 1..Len(r.sync[s].tilesWithChanges) :
                r.sync[s].tilesWithChanges[i] = CurKey(s)
           /\ r.changedPixels = changedPixels
  /\ ~strayAttribution

\* C11: a delta payload for a tile that has no stored entry changes nothing:
\* the tile cache, the checksums, the changed pixels and the changed tiles of
\* the cycle stay as they are and the cycle's changed flag is not raised.
C11_DeltaWithoutBaseline ==
  \A s \in Syncs, d \in DeltaPool, key \in {<<0, 0>>}, ts \in {1, 2} :
    (sync[s].pc = "fetch" /\ ~Has(tileCache, key)) =>
      \A r \in {processTileDelta(Cur, s, key, d, ts)} :
        /\ r.tileCache = tileCache
        /\ r.tileChecksums = tileChecksums
        /\ r.changedPixels = changedPixels
        /\ ReportsUnchanged(r, s)
        /\ r.leaderboard = leaderboard /\ r.userActivity = userActivity

\* no tile has a baseline, every cycle awaits its answer, and a delta with a
\* pixel is dropped
C11_Witness ==
  /\ tileCache = EmptyMap
  /\ \A s \in Syncs : sync[s].pc = "fetch"
  /\ processTileDelta(Cur, 1, <<0, 0>>, Delta(<< <<0, 0, 1, 7>> >>), 1) = Cur

\* ------------------------------------------------------ region claims
\* the coordinates looked up: a grid around the origin and the corners of Taiga
Points ==
  { <<x, y>> : x \in -2..3, y \in -2..3 }
    \cup { <<-434645, 136000>>, <<-434646, 136000>>, <<-431370, 140901>>,
           <<-431369, 140901>>, <<-431370, 140902>> }

\* the half-open rectangle [x, x + width) x [y, y + height) of r holds p
Inside(r, p) ==
  /\ r.x <= p[1] /\ p[1] < r.x + r.width
  /\ r.y <= p[2] /\ p[2] < r.y + r.height

\* C15: the region of a coordinate is the first region in registry order
\* whose half-open rectangle contains it, also when regions overlap, and
\* "Unknown" when no region contains it.
C15_FirstRegionInOrder ==
  \A p \in Points :
    IF \E i \in 1..Len(regions) : Inside(regions[i], p)
    THEN \E i \in 1..Len(regions) :
           /\ Inside(regions[i], p)
           /\ \A j \in 1..(i - 1) : ~Inside(regions[j], p)
           /\ RegionOf(regions, p[1], p[2]) = regions[i].name
    ELSE RegionOf(regions, p[1], p[2]) = "Unknown"

\* B is registered before A, both contain (0, 0), and (3, 3) is in no region
C15_Witness ==
  /\ Len(regions) = 3
  /\ regions[1].name = "B" /\ regions[2].name = "A"
  /\ RegionOf(regions, 0, 0) = "B"
  /\ RegionOf(regions, 3, 3) = "Unknown"

Taiga == Region(4, "Taiga", -434645, 136000, 3276, 4902)
\* the keys with x from x1 to x2 and y from y1 to y2, in steps of SYNC_TILE_SIZE
KeyGrid(x1, x2, y1, y2) ==
  { <<x, y>> : x \in { x1 + SYNC_TILE_SIZE * i : i \in 0..((x2 - x1) \div SYNC_TILE_SIZE) },
               y \in { y1 + SYNC_TILE_SIZE * i : i \in 0..((y2 - y1) \div SYNC_TILE_SIZE) } }
KeySet(keys) == { keys[i] : i \in 1..Len(keys) }

\* C16, as claimed: for the region Taiga the required tile keys are those with
\* x from -435000 to -431000 and y from 136000 to 141000, step 1000.
C16_TaigaTilesAsClaimed ==
  regions = <<Taiga>> =>
    KeySet(calculateRequiredTiles(regions)) = KeyGrid(-435000, -431000, 136000, 141000)

\* C16, amended: for the region Taiga the required tile keys are the 20 keys
\* with x from -435000 to -432000 and y from 136000 to 140000, step 1000.
C16_TaigaTiles ==
  regions = <<Taiga>> =>
    /\ KeySet(calculateRequiredTiles(regions)) = KeyGrid(-435000, -432000, 136000, 140000)
    /\ Len(calculateRequiredTiles(regions)) = 20

\* Taiga is the only region and its tiles are computed
C16_Witness ==
  /\ regions = <<Taiga>>
  /\ calculateRequiredTiles(regions)[1] = <<-435000, 136000>>
  /\ calculateRequiredTiles(regions)[20] = <<-432000, 140000>>

\* ------------------------------------------------------ attribution claims
\* the entries invocation s applies in the step, in order
NewlyApplied(s) ==
  IF Len(sync'[s].applied) > Len(sync[s].applied)
  THEN SubSeq(sync'[s].applied, Len(sync[s].applied) + 1, Len(sync'[s].applied))
  ELSE <<>>

\* the user id and the color byte stored for a coordinate of a cached tile
StoredUser(cache, tileKey, pixelKey) ==
  ReadUser(cache[tileKey].userBitmap.data,
           ((pixelKey[2] - tileKey[2]) * cache[tileKey].userBitmap.width
              + (pixelKey[1] - tileKey[1])) * 4)
StoredColor(cache, tileKey, pixelKey) ==
  cache[tileKey].colorBitmap.data[
    ((pixelKey[2] - tileKey[2]) * cache[tileKey].colorBitmap.width
       + (pixelKey[1] - tileKey[1])) * 4 + 1]

\* C12: when a cycle has applied delta entries, then for every entry that lies
\* inside the bitmap, the 4 little-endian user bytes stored at its coordinate
\* decode to the userId of the last entry applied to that coordinate, and the
\* color byte there is that entry's colorIndex.
C12_LastWriteWins ==
  [][\A s \in Syncs : \A i \in 1..Len(NewlyApplied(s)) :
       LET tileKey == NewlyApplied(s)[i][1]
           pixel == NewlyApplied(s)[i][2]
           pixelKey == <<pixel[1], pixel[2]>>
           last == LastEntry(NewlyApplied(s), tileKey, pixelKey)
       IN InBitmap(Cur, tileKey, pixelKey) =>
            /\ StoredUser(tileCache', tileKey, pixelKey) = last[4]
            /\ StoredColor(tileCache', tileKey, pixelKey) = last[3]]_vars

\* a suspended cycle has applied two entries with different users to one
\* coordinate, and the bitmap holds the user and the color of the later one
C12_Witness ==
  \E s \in Syncs : \E i, j \in 1..Len(sync[s].applied) :
    LET a == sync[s].applied[i]
        b == sync[s].applied[j]
        pixelKey == <<b[2][1], b[2][2]>>
    IN /\ sync[s].pc = "decode"
       /\ i < j /\ a[1] = b[1] /\ <<a[2][1], a[2][2]>> = pixelKey
       /\ a[2][4] # b[2][4] /\ a[2][3] # b[2][3]
       /\ b = <<b[1], LastEntry(sync[s].applied, b[1], pixelKey)>>
       /\ InBitmap(Cur, b[1], pixelKey)
       /\ StoredUser(tileCache, b[1], pixelKey) = b[2][4]
       /\ StoredColor(tileCache, b[1], pixelKey) = b[2][3]

\* C14: no leaderboard entry and no user-activity record has userId 0, and a
\* changed coordinate whose stored user id is 0 adds nothing to the counts of
\* an attribution.
C14_ZeroNeverAttributed ==
  /\ \A key \in DOMAIN leaderboard : key[1] # 0 /\ leaderboard[key].userId # 0
  /\ \A i \in 1..Len(userActivity) : userActivity[i].userId # 0
  /\ \A tileKey \in DOMAIN changedPixels : \A i \in 1..Len(changedPixels[tileKey]) :
       LET pixelKey == changedPixels[tileKey][i] IN
       (InBitmap(Cur, tileKey, pixelKey) /\ StoredUser(tileCache, tileKey, pixelKey) = 0) =>
         \A userChanges \in {<<>>, <<[userId |-> 7, pixels |-> 1, region |-> "A",
                                      chunk |-> tileKey]>>} :
           Attribute(userChanges, Cur, <<tileKey, pixelKey>>) = userChanges

\* a cycle applied a delta that left user 0 at a changed coordinate and ran to
\* its end: its attribution logged nothing after "Applied deltas"
C14_Witness ==
  /\ \A s \in Syncs : sync[s].pc = "free"
  /\ activityLog = <<"Applied deltas">>
  /\ \E tileKey \in DOMAIN changedPixels : \E i \in 1..Len(changedPixels[tileKey]) :
       /\ InBitmap(Cur, tileKey, changedPixels[tileKey][i])
       /\ StoredUser(tileCache, tileKey, changedPixels[tileKey][i]) = 0
       /\ StoredColor(tileCache, tileKey, changedPixels[tileKey][i]) = 3

\* C13: whenever a cycle runs its attribution, every coordinate it has touched
\* (once or several times, in one delta payload or in several) counts exactly
\* once, for the user of the last entry the cycle applied to it, and for no
\* other user.
C13_CountedOnceForLastUser == ~miscounted

\* --------------------------------------------------------- resolver claims
\* the requests outstanding for a user id
Outstanding(w, userId) ==
  { t \in DOMAIN w.profileFetches : w.profileFetches[t].userId = userId }

\* C17: resolveUsername(0) issues no request, leaves the cache and the map of
\* pending requests as they are and returns '[No User]'; no request, no cache
\* entry and no pending entry is ever for user 0.
C17_ZeroIsNeverRequested ==
  /\ resolveUsername(Cur, 0, {}) = [Cur EXCEPT !.resolved = <<0, NoUser>>]
  /\ Outstanding(Cur, 0) = {}
  /\ ~Has(userProfileCache, 0)
  /\ ~Has(pendingUserRequests, 0)

\* resolveUsername(0) has returned while a request for another user is outstanding
C17_Witness ==
  /\ resolved = <<0, NoUser>>
  /\ \E t \in DOMAIN profileFetches : profileFetches[t].userId # 0

\* C18: at most one request per user id is outstanding; two calls in a row for
\* an id that is neither fresh in the cache nor pending add exactly one
\* request, and the second call is handed the promise of the first.
C18_Coalescing ==
  /\ \A t, u \in DOMAIN profileFetches :
       profileFetches[t].userId = profileFetches[u].userId => t = u
  /\ \A userId \in ProfileIds \ {0} :
       (~Immediate(Cur, userId) /\ ~Has(pendingUserRequests, userId)) =>
         LET w1 == resolveUsername(Cur, userId, {})
             w2 == resolveUsername(w1, userId, {})
         IN /\ Cardinality(DOMAIN w1.profileFetches) = Cardinality(DOMAIN profileFetches) + 1
            /\ DOMAIN w2.profileFetches = DOMAIN w1.profileFetches
            /\ Cardinality(Outstanding(w2, userId)) = 1
            /\ w2.profileFetches[w2.pendingUserRequests[userId]].joined

\* a second call for a user has joined the request of the first, while a
\* request for another user is outstanding as well
C18_Witness ==
  \E t, u \in DOMAIN profileFetches :
    /\ profileFetches[t].joined
    /\ profileFetches[u].userId # profileFetches[t].userId

\* C19: for a cached user whose entry is less than 60 minutes old,
\* resolveUsername returns the cached username and changes nothing else; for
\* an entry of 60 minutes or more it returns nothing at once, a request for
\* the user is outstanding afterwards, and the entry stays as it is until a
\* request succeeds: a failed answer leaves it, a successful one replaces it.
C19_CacheTTL ==
  \A userId \in DOMAIN userProfileCache :
    LET cached == userProfileCache[userId]
        w == resolveUsername(Cur, userId, {})
    IN IF cached.age * 5 < 60
       THEN w = [Cur EXCEPT !.resolved = <<userId, cached.username>>]
       ELSE /\ w.resolved = resolved
            /\ w.userProfileCache = userProfileCache
            /\ Cardinality(Outstanding(w, userId)) = 1
            /\ Has(pendingUserRequests, userId) \/
                 Cardinality(DOMAIN w.profileFetches) = Cardinality(DOMAIN profileFetches) + 1
            /\ \A outcome \in {"status", "transport"} :
                 Answered(w, w.pendingUserRequests[userId], outcome).userProfileCache
                   = userProfileCache
            /\ \A outcome \in {"name", "no name"} :
                 Answered(w, w.pendingUserRequests[userId], outcome).userProfileCache[userId].age
                   = 0

\* an entry exactly 60 minutes old is still in the cache while a request for
\* its user is outstanding, and another entry is younger than that
C19_Witness ==
  \E userId, other \in DOMAIN userProfileCache :
    /\ userProfileCache[userId].age * 5 = 60
    /\ Has(pendingUserRequests, userId)
    /\ userProfileCache[other].age * 5 < 60
    /\ resolved = <<other, userProfileCache[other].username>>

\* C20: when a profile request fails, by its status or in transport, the cache
\* stays as it is, the failure is the newest log entry, the call settles with
\* "User<id>", and no cycle and no scheduling chain changes.
C20_ProfileFailure ==
  \A t \in DOMAIN profileFetches : \A outcome \in {"status", "transport"} :
    LET userId == profileFetches[t].userId
        w == Answered(Cur, t, outcome)
        w2 == Chained(w, profileFetches[t].then)
    IN /\ w.userProfileCache = userProfileCache
       /\ w.activityLog # <<>>
       /\ w.activityLog[Len(w.activityLog)] = "Failed to fetch profile"
       /\ w.resolved = <<userId, <<"User", userId>> >>
       /\ w2.userProfileCache = userProfileCache
       /\ w2.sync = sync /\ w2.chain = chain /\ w2.isMonitoring = isMonitoring

\* a request has failed for a user who has no cache entry
C20_Witness ==
  /\ activityLog # <<>>
  /\ activityLog[Len(activityLog)] = "Failed to fetch profile"
  /\ \E userId \in ProfileIds \ {0} :
       /\ resolved = <<userId, <<"User", userId>> >>
       /\ ~Has(userProfileCache, userId)

\* C21: a pending entry is deleted when its request is answered, with a
\* profile or with a failure: every pending entry is deleted in the end, and
\* after a failed request the next call for the user that the cache does not
\* serve makes a new request, which no earlier call has joined.
C21_MarkerCleared ==
  /\ [](\A t \in DOMAIN profileFetches : \A outcome \in ProfileOutcomes :
          LET userId == profileFetches[t].userId
              w == Answered(Cur, t, outcome)
              w1 == resolveUsername(w, userId, {})
          IN /\ ~Has(w.pendingUserRequests, userId)
             /\ Outstanding(w, userId) = {}
             /\ (outcome \in {"status", "transport"} /\ ~Immediate(w, userId)) =>
                  /\ Cardinality(Outstanding(w1, userId)) = 1
                  /\ ~w1.profileFetches[w1.pendingUserRequests[userId]].joined)
  /\ \A userId \in ProfileIds \ {0} :
       /\ (Has(pendingUserRequests, userId) /\ userId \in cleared) ~> (userId \notin cleared)
       /\ (Has(pendingUserRequests, userId) /\ userId \notin cleared) ~> (userId \in cleared)

\* after a failed request for a user, a later call has made a new request
C21_Witness ==
  \E userId \in ProfileIds \ {0} :
    /\ userId \in cleared
    /\ ~Has(userProfileCache, userId)
    /\ Has(pendingUserRequests, userId)
    /\ activityLog = <<"Failed to fetch profile">>

\* ------------------------------------------------------ sync cycle claims
\* the identifier is tile_<x>_<y> and nothing else
OfTheForm(tileKeyName) == MatchAtAnchored(tileKeyName, 1).ok

\* what processTile makes of the entry e in a cycle that waits for a response
Processed(s, e, serverTimestamp) ==
  processTile([Cur EXCEPT !.sync[s].serverTimestamp = serverTimestamp], s, e)

\* C22: an entry whose identifier is not of the form tile_<x>_<y> is logged as
\* an error and changes neither the tile cache, the checksums, the changed
\* pixels nor the cycle's changed tiles and its changed flag.
C22_InvalidIdentifierRejected ==
  \A s \in Syncs : \A e \in EntryPool \cup OddPool :
    (sync[s].pc = "fetch" /\ ~OfTheForm(e.name)) =>
      LET w == Processed(s, e, 1) IN
      /\ w.activityLog = log(Cur, "Invalid tile key format").activityLog
      /\ w.tileCache = tileCache
      /\ w.tileChecksums = tileChecksums
      /\ w.changedPixels = changedPixels
      /\ w.sync[s].tilesWithChanges = sync[s].tilesWithChanges
      /\ w.sync[s].hasAnyChanges = sync[s].hasAnyChanges

\* the responses without ServerTimestamp that hold tile data
UntimedResponses(s) ==
  { r \in BatchResponses(Head(sync[s].batches)) : r.ServerTimestamp = 0 /\ r.Tiles # <<>> }

\* C23: a response without ServerTimestamp is logged as an error and none of
\* its tile data is used: the tile cache with its timestamps, the checksums,
\* the changed pixels and the cycle's changed tiles stay as they are; when
\* batches remain, the cycle goes on to request the next one.
C23_UntimedResponseSkipped ==
  \A s \in Syncs : sync[s].pc = "fetch" =>
    \A response \in UntimedResponses(s) :
      LET w0 == Received([Cur EXCEPT !.sync[s].batches = Tail(@)], s, response)
          w == Responded(Cur, s, response)
      IN /\ w0.activityLog = log(Cur, "Missing ServerTimestamp").activityLog
         /\ w0.sync[s].queue = <<>>
         /\ w.tileCache = tileCache
         /\ w.tileChecksums = tileChecksums
         /\ w.changedPixels = changedPixels
         /\ w.sync[s].tilesWithChanges = sync[s].tilesWithChanges
         /\ w.sync[s].hasAnyChanges = sync[s].hasAnyChanges
         /\ Len(sync[s].batches) > 1 =>
              /\ w.sync[s].pc = "fetch"
              /\ w.sync[s].batches = Tail(sync[s].batches)

\* a cycle whose first response had no ServerTimestamp waits for the answer
\* to its second request, and the tile of the first response is not stored
C23_Witness ==
  \E s \in Syncs :
    /\ sync[s].untimed
    /\ sync[s].pc = "fetch"
    /\ Len(sync[s].batches) = 1
    /\ ~Has(tileCache, <<0, 0>>)

\* invocation s sends a request in the step: its first one, or the next one
Sent(s) ==
  /\ sync'[s].pc = "fetch"
  /\ sync[s].pc # "fetch" \/ sync'[s].batches # sync[s].batches

\* C27: each tile of a request carries the ServerTimestamp of the last
\* response of which a full payload, or a delta on a stored baseline, was
\* applied to the tile, and 0 when there was none.
C27_RequestCarriesLastKnown ==
  [][\A s \in Syncs : Sent(s) =>
       \A i \in 1..Len(Head(sync'[s].batches)) :
         LET tile == Head(sync'[s].batches)[i]
             tileKey == <<tile.x, tile.y>>
         IN tile.timestamp = IF Has(lastKnown', tileKey) THEN lastKnown'[tileKey] ELSE 0]_vars

\* the tiles of all batches, in order
RECURSIVE Flatten(_)
Flatten(batches) == IF batches = <<>> THEN <<>> ELSE Head(batches) \o Flatten(Tail(batches))

IsSuffix(q, r) == Len(q) <= Len(r) /\ q = SubSeq(r, Len(r) - Len(q) + 1, Len(r))

\* C26: the batches of a cycle hold at most 4 tiles each and, together, every
\* required tile once; a cycle sends a request only when no entry of an
\* earlier response is left to process, the next request is for the next
\* batch, and the entries of a response are taken from its head, in order.
C26_BatchesInTurn ==
  /\ [](LET tileKeys == calculateRequiredTiles(regions)
            batches == Batches(RequestTiles(Cur, tileKeys))
        IN /\ \A k \in 1..Len(batches) : Len(batches[k]) >= 1 /\ Len(batches[k]) <= 4
           /\ Len(Flatten(batches)) = Len(tileKeys)
           /\ \A i \in 1..Len(tileKeys) :
                /\ <<Flatten(batches)[i].x, Flatten(batches)[i].y>> = tileKeys[i]
                /\ \A j \in 1..Len(tileKeys) : tileKeys[i] = tileKeys[j] => i = j)
  /\ [][\A s \in Syncs :
          /\ Sent(s) =>
               /\ sync'[s].queue = <<>> /\ sync'[s].cur = <<>>
               /\ sync[s].pc = "free" =>
                    sync'[s].batches
                      = Batches(RequestTiles(Cur, calculateRequiredTiles(regions)))
               /\ sync[s].pc = "fetch" => sync'[s].batches = Tail(sync[s].batches)
               /\ sync[s].pc = "decode" => sync'[s].batches = sync[s].batches
          /\ (sync[s].pc = "decode" /\ sync'[s].pc # "free") =>
               IsSuffix(sync'[s].queue, sync[s].queue)]_vars

\* a cycle waits for the answer to its second request after the full payload
\* and then the delta of its first response were applied, in that order
C26_Witness ==
  \E s \in Syncs :
    /\ sync[s].pc = "fetch"
    /\ Len(sync[s].batches) = 1
    /\ sync[s].applied = Tagged(<<0, 0>>, BatchDelta.Pixels)
    /\ Has(tileCache, <<0, 0>>)
    /\ StoredColor(tileCache, <<0, 0>>, <<0, 0>>) = 3
    /\ tileCache[<<0, 0>>].timestamp = 2

\* ------------------------------------------------------ required tiles claims
\* the start of the SYNC_TILE_SIZE interval of the grid that holds v
SquareStart(v) == v - (v % SYNC_TILE_SIZE)
\* the starts of the intervals that hold a number of lo, ..., lo + size - 1
SquareStarts(lo, size) == { SquareStart(v) : v \in lo..(lo + size - 1) }
\* the square of tile key `key` and the rectangle of region r have a
\* coordinate in common
Intersects(key, r) ==
  /\ key[1] < r.x + r.width /\ r.x < key[1] + SYNC_TILE_SIZE
  /\ key[2] < r.y + r.height /\ r.y < key[2] + SYNC_TILE_SIZE

\* C24: every coordinate of every region lies in the square of a required
\* tile key, also for negative coordinates; the required tile keys are
\* multiples of SYNC_TILE_SIZE and no key is listed twice.
C24_Coverage ==
  LET tileKeys == calculateRequiredTiles(regions) IN
  /\ \A i \in 1..Len(regions) :
       \A tx \in SquareStarts(regions[i].x, regions[i].width),
          ty \in SquareStarts(regions[i].y, regions[i].height) :
         <<tx, ty>> \in KeySet(tileKeys)
  /\ \A i \in 1..Len(tileKeys) :
       /\ tileKeys[i][1] % SYNC_TILE_SIZE = 0 /\ tileKeys[i][2] % SYNC_TILE_SIZE = 0
       /\ \A j \in 1..Len(tileKeys) : tileKeys[i] = tileKeys[j] => i = j

\* three regions, with negative and positive coordinates, that share tiles
C24_Witness ==
  /\ Len(regions) = 3
  /\ \E i \in 1..3 : regions[i].x < 0 /\ regions[i].width > SYNC_TILE_SIZE
  /\ \E i \in 1..3 : regions[i].x < 0 /\ regions[i].width = 1
  /\ <<0, 0>> \in KeySet(calculateRequiredTiles(regions))
  /\ <<-1000, -1000>> \in KeySet(calculateRequiredTiles(regions))
  /\ Len(calculateRequiredTiles(regions)) > 20

\* C25: the square of every required tile key has a coordinate in common with
\* the rectangle of at least one region.
C25_Minimality ==
  LET tileKeys == calculateRequiredTiles(regions) IN
  \A k \in 1..Len(tileKeys) : \E i \in 1..Len(regions) : Intersects(tileKeys[k], regions[i])

\* ------------------------------------------------------ recording claims
\* the records the step has put in front of userActivity
Prepended == SubSeq(userActivity', 1, Len(userActivity') - Len(userActivity))

\* the pixels of the records of `records` for the leaderboard key `key`
RECURSIVE PixelsFor(_, _)
PixelsFor(records, key) ==
  IF records = <<>> THEN 0
  ELSE (IF <<Head(records).userId, Head(records).region>> = key THEN Head(records).pixels
        ELSE 0) + PixelsFor(Tail(records), key)

\* the user groups detectChanges builds from the changed pixels of `tiles`
GroupsOf(tiles) == UserChanges(<<>>, Cur, Candidates(Cur, tiles))

\* lists of tiles with changed pixels: one tile, or two different ones
ChangedTileLists ==
  { <<tileKey>> : tileKey \in DOMAIN changedPixels }
    \cup { p \in (DOMAIN changedPixels) \X (DOMAIN changedPixels) : p[1] # p[2] }

ChangedBy(items, i, userId) ==
  /\ InBitmap(Cur, items[i][1], items[i][2])
  /\ StoredUser(tileCache, items[i][1], items[i][2]) = userId

\* C29: when the changed pixels of a cycle are grouped, every user with a
\* changed pixel has one group; the group holds the region and the tile of
\* the first changed pixel of the user in the order they are encountered, and
\* counts all changed pixels of the user, those in other tiles and regions
\* too.
C29_FirstPixelFixesGroup ==
  \A tiles \in ChangedTileLists :
    LET items == Candidates(Cur, tiles)
        groups == GroupsOf(tiles)
    IN /\ \A i \in 1..Len(items) :
            LET userId == StoredUser(tileCache, items[i][1], items[i][2]) IN
            (InBitmap(Cur, items[i][1], items[i][2]) /\ userId # 0) =>
              \E g \in 1..Len(groups) : groups[g].userId = userId
       /\ \A g \in 1..Len(groups) :
            LET userId == groups[g].userId
                I == { i \in 1..Len(items) : ChangedBy(items, i, userId) }
            IN /\ \A h \in 1..Len(groups) : groups[h].userId = userId => h = g
               /\ I # {}
               /\ groups[g].pixels = Cardinality(I)
               /\ LET first == CHOOSE i \in I : \A j \in I : i <= j IN
                  /\ groups[g].chunk = items[first][1]
                  /\ groups[g].region
                       = RegionOf(regions, items[first][2][1], items[first][2][2])

\* a cycle has recorded one group of 2 pixels for user 9, with the region and
\* tile of the pixel of tile (0,0), and user 9 holds a changed pixel of tile
\* (1000,0), outside every region, too
C29_Witness ==
  /\ Len(userActivity) = 2
  /\ userActivity[2] = [userId |-> 9, pixels |-> 2, region |-> "A", chunk |-> <<0, 0>>]
  /\ userActivity[1].userId = 7
  /\ Has(changedPixels, <<1000, 0>>)
  /\ StoredUser(tileCache, <<1000, 0>>, <<1000, 0>>) = 9
  /\ StoredUser(tileCache, <<0, 0>>, <<0, 0>>) = 9
  /\ RegionOf(regions, 1000, 0) = "Unknown"

\* ------------------------------------------------------ bounds claims
\* delta entries for tile tileKey whose offset lies outside a bitmap of
\* `width` by 1
OutOfBounds(tileKey, width) ==
  { <<tileKey[1] + dx, tileKey[2] + dy, 1, 7>> : dx \in {-1, 0, width, 5}, dy \in {-1, 0, 1} }
    \ { <<tileKey[1], tileKey[2], 1, 7>> }

\* C30: a delta entry whose offset lies outside the bitmaps of its tile
\* changes neither bitmap, is not in the changed pixels of the tile, and adds
\* nothing to an attribution.
C30_OutOfBoundsSkipped ==
  /\ \A tileKey \in DOMAIN tileCache :
       LET cached == tileCache[tileKey]
           bm == <<cached.colorBitmap, cached.userBitmap>>
       IN \A pixel \in OutOfBounds(tileKey, cached.userBitmap.width) :
            ~InBitmap(Cur, tileKey, <<pixel[1], pixel[2]>>) =>
              /\ applyDeltas(bm, <<pixel>>, tileKey[1], tileKey[2]) = bm
              /\ \A userChanges \in {<<>>, <<[userId |-> 7, pixels |-> 1, region |-> "A",
                                           chunk |-> tileKey]>>} :
                   Attribute(userChanges, Cur, <<tileKey, <<pixel[1], pixel[2]>> >>)
                     = userChanges
  /\ \A tileKey \in DOMAIN changedPixels :
       Has(tileCache, tileKey) =>
         \A i \in 1..Len(changedPixels[tileKey]) :
           InBitmap(Cur, tileKey, changedPixels[tileKey][i])

\* ------------------------------------------------------ delta claims
\* C31: a delta payload for a tile with a stored entry reports changed exactly
\* when it holds an update; then the stored checksum is the checksum of the
\* updated user bitmap and the stored timestamp is the ServerTimestamp of the
\* response.  An empty delta sets the stored timestamp and nothing else, and
\* reports unchanged.
C31_DeltaReportsChanged ==
  \A s \in Syncs, d \in DeltaPool, key \in {<<0, 0>>}, ts \in {3} :
    (sync[s].pc = "fetch" /\ Has(tileCache, key)) =>
      \A r \in {processTileDelta(Cur, s, key, d, ts)} :
        LET cached == tileCache[key]
            bm == applyDeltas(<<cached.colorBitmap, cached.userBitmap>>, d.Pixels,
                              key[1], key[2])
        IN /\ r.tileCache[key].timestamp = ts
           /\ DOMAIN r.tileCache = DOMAIN tileCache
           /\ IF Len(d.Pixels) > 0
              THEN /\ r.sync[s].hasAnyChanges
                   /\ key \in KeySet(r.sync[s].tilesWithChanges)
                   /\ r.tileCache[key].colorBitmap = bm[1]
                   /\ r.tileCache[key].userBitmap = bm[2]
                   /\ r.tileChecksums[key] = computeTileChecksum(r.tileCache[key].userBitmap)
              ELSE /\ ReportsUnchanged(r, s)
                   /\ r.tileCache[key] = [cached EXCEPT !.timestamp = ts]
                   /\ r.tileChecksums = tileChecksums
                   /\ r.changedPixels = changedPixels

\* a cycle awaits its answer while tile (0,0) is stored with timestamp 1: a
\* delta with one update would change the user bitmap and the checksum, an
\* empty one only the timestamp
C31_Witness ==
  \E s \in Syncs :
    /\ sync[s].pc = "fetch" /\ ~sync[s].hasAnyChanges
    /\ Has(tileCache, <<0, 0>>) /\ tileCache[<<0, 0>>].timestamp = 1
    /\ LET r == processTileDelta(Cur, s, <<0, 0>>, Delta(<< <<0, 0, 1, 7>> >>), 2)
           e == processTileDelta(Cur, s, <<0, 0>>, Delta(<<>>), 2)
       IN /\ r.tileChecksums[<<0, 0>>] # tileChecksums[<<0, 0>>]
          /\ r.tileCache[<<0, 0>>].userBitmap # tileCache[<<0, 0>>].userBitmap
          /\ r.sync[s].hasAnyChanges
          /\ e.tileCache[<<0, 0>>].timestamp = 2
          /\ e.tileChecksums = tileChecksums /\ ~e.sync[s].hasAnyChanges

\* ------------------------------------------------------ changed pixels claims
\* C32: the coordinates the attribution of a cycle reads from the changed
\* pixels were all put there by deltas of that same cycle.
C32_ChangedPixelsPerCycle == ~foreignRead

\* ------------------------------------------------------ log claims
\* s holds the newest entries of `all`, at most n of them, in the order of `all`
NewestOf(s, all, n) ==
  /\ Len(s) = (IF Len(all) <= n THEN Len(all) ELSE n)
  /\ \A i \in 1..Len(s) : s[i] = all[Len(all) - Len(s) + i]

C34_ChecksumConsistent ==
  /\ DOMAIN tileCache = DOMAIN tileChecksums
  /\ \A tileKey \in DOMAIN tileCache :
       tileChecksums[tileKey] = computeTileChecksum(tileCache[tileKey].userBitmap)

\* every cycle has ended, the last one with an attribution, and the stored
\* tile holds user 7 where its first image held none: its checksum is not the
\* one of the first image
C34_Witness ==
  /\ \A s \in Syncs : sync[s].pc = "free"
  /\ activityLog = <<"Detected changes">>
  /\ Has(tileCache, <<0, 0>>)
  /\ StoredUser(tileCache, <<0, 0>>, <<0, 0>>) = 7
  /\ tileCache[<<0, 0>>].timestamp = 2
  /\ tileChecksums[<<0, 0>>] # computeTileChecksum(UserImage(0, 0))
  /\ tileChecksums[<<0, 0>>] = computeTileChecksum(UserImage(7, 0))

\* ------------------------------------------------------ attribution books
\* the leaderboard keys that the leaderboard or a user-activity record names
BookKeys ==
  DOMAIN leaderboard
    \cup { <<userActivity[i].userId, userActivity[i].region>> : i \in 1..Len(userActivity) }
LeaderboardTotal(key) == IF Has(leaderboard, key) THEN leaderboard[key].pixels ELSE 0

Ends(s) == sync[s].pc # "free" /\ sync'[s].pc = "free"

\* a delta that invocation s has applied holds a coordinate inside the bitmap
\* of its tile whose owner, when s ends, is a user
Owed(s) ==
  \E i \in 1..Len(sync[s].applied) :
    LET tileKey == sync[s].applied[i][1]
        pixelKey == <<sync[s].applied[i][2][1], sync[s].applied[i][2][2]>>
    IN /\ InBitmap([tileCache |-> tileCache'], tileKey, pixelKey)
       /\ StoredUser(tileCache', tileKey, pixelKey) # 0

\* C36: a cycle that has applied a delta to the tile store and ends, be it
\* with a failed fetch for a later batch, has run its attribution: the
\* coordinates of the delta that lie in the bitmap and have an owner are
\* recorded in the user activity.
C36_AppliedDeltaAttributed ==
  [][\A s \in Syncs : (Ends(s) /\ Owed(s)) => Len(userActivity') > Len(userActivity)]_vars

\* invocation s, suspended at the decoding of a full payload, ends in the
\* catch of performSync
DecodeAborts(s) ==
  /\ sync[s].pc = "decode"
  /\ sync'[s].pc = "free"
  /\ activityLog' # <<>> /\ activityLog'[Len(activityLog')] = "Sync error"

\* C37: when an image of a full payload fails to decode, the tile cache and
\* the checksums stay as they are, the rest of the cycle is not run (nothing
\* is attributed), and the scheduler, when it awaits the cycle and monitoring
\* is on, arms the poll timer for the next cycle.
C37_DecodeFailureAborts ==
  [][\A s \in Syncs :
       DecodeAborts(s) =>
         /\ tileCache' = tileCache
         /\ tileChecksums' = tileChecksums
         /\ changedPixels' = changedPixels
         /\ leaderboard' = leaderboard /\ userActivity' = userActivity
         /\ \A c \in Awaiters(Cur, s) :
              isMonitoring =>
                /\ chain'[c].pc = "timer"
                /\ chain'[c].remaining = TimerDelay(PollingInterval)
                /\ pollTimer' = c]_vars

\* tile (0,0) is stored and a cycle the scheduler awaits is decoding a full
\* payload of it when the decoding fails: the store is as before and the
\* scheduler waits for its timer
C37_Witness ==
  \E s \in Syncs, c \in Chains :
    /\ isMonitoring
    /\ sync[s].pc = "decode"
    /\ Has(tileCache, sync[s].cur.tileKey)
    /\ c \in Awaiters(Cur, s)
    /\ \E r \in {AfterStep(decodeRejected(Cur, s), s)} :
         /\ r.tileCache = tileCache
         /\ r.sync[s].pc = "free"
         /\ r.chain[c].pc = "timer" /\ r.chain[c].failed

\* ------------------------------------------------------ poll timer claims
\* the chains whose poll timer is armed: set and neither fired nor cleared
Armed == { c \in Chains : chain[c].pc = "timer" }

\* C38: at most one poll timer is armed, and it is the one pollTimer refers
\* to; there are never two scheduling chains.
C38_OnePollTimer ==
  /\ Cardinality(Armed) <= 1
  /\ \A c \in Armed : pollTimer = c
  /\ Cardinality({ c \in Chains : chain[c].pc # "free" }) <= 1

====
